---- MODULE Spec2Model ----
(***************************************************************************)
(* QuantumSalvage: the per-frame gameplay simulation of src/src/gameplay.rs *)
(* as a state machine.                                                     *)
(*                                                                         *)
(* One frame of the host loop is                                           *)
(*   StateTransition  (NextState<GameState> / NextState<GameLifecycleState>*)
(*                     take effect)                                        *)
(*   Update           (every system whose run conditions hold runs once,   *)
(*                     in an order the schedule does not fix; Commands are *)
(*                     buffered per system)                                *)
(*   apply_deferred   (the buffers are applied, one system's at a time)    *)
(*   PostUpdate       (the physics collaborator emits collision events)    *)
(*                                                                         *)
(* Time is in milliseconds, positions are cells of a line (a 1-D shadow of *)
(* the 2-D plane), velocities are cells per frame.                         *)
(***************************************************************************)
EXTENDS Integers, Sequences, FiniteSets, TLC

VARIABLES
    lifecycle,      \* State<GameLifecycleState>
    nextLifecycle,  \* NextState<GameLifecycleState>: "None" or the state set
    state,          \* State<GameState>
    nextState,      \* NextState<GameState>: "None" or the state set
    ships,          \* entity id -> Spacecraft record with its marker components
    bullets,        \* entity id -> Bullet record
    images,         \* entities carrying ShipUsageImageMarker (the decision prompt)
    decisions,      \* the ShipUsageDecision entities, oldest first
    score,          \* the PlayerScore resource
    events,         \* CollisionEvent::Started pairs collide_bullets has not read yet
    cmds,           \* system -> its buffered Commands
    ran,            \* systems that have run in the current Update
    phase,          \* "StateTransition" | "Update"
    sched,          \* the systems and the keys of the run under analysis
    trace,          \* what the last step printed: its Spacecraft::collide calls
                    \* and its immunity bypass
    panicked,       \* a system or a command panicked: the app is gone
    nextEntity,     \* the next fresh entity id
    spawn_points,   \* the CarryoverEnemyPoints resource
    delayed,        \* the DelayedPlayerLocation resource
    dialogue,       \* Dialogue.visible
    explosions      \* the atlas index of every explosion sprite

vars == <<lifecycle, nextLifecycle, state, nextState, ships, bullets, images,
          decisions, score, events, cmds, ran, phase, sched, trace, panicked,
          nextEntity, spawn_points, delayed, dialogue, explosions>>

---------------------------------------------------------------------------
(* Bounds of the model *)

MaxEntities == 6    \* entity ids handed out in one run
MaxEvents   == 1    \* collision events buffered at once
MaxScore    == 35   \* the run stops accepting collisions at this score
MaxDrop     == 101  \* health is followed down to -MaxDrop
MaxDamage   == 3    \* damages tried by the collide harness, besides LETHAL
MaxKeys     == 1    \* keys held or released in one frame
MaxExplosions == 2  \* no collision starts while this many explosions play

---------------------------------------------------------------------------
(* Program constants *)

HIT              == 1      \* damage of one collision
LETHAL           == 100    \* damage of the Destroy decision and of the border
SCORE_CLAMP      == 15
SCORE_HIT        == 5
GRACE_MS         == 3000   \* no collision damage in the first 3 s
IMMUNITY_MS      == 250
CULL_DISTANCE    == 10
WARN_DISTANCE    == 10
LETHAL_DISTANCE  == 15
BULLET_RANGE     == 2
DELTA_MS         == 250    \* time.delta() of a frame

ShipTypes == {"Ship1", "Ship2", "Ship3", "Ship4", "Ship5", "Ship6"}

\* ShipProfile::from_type
ShipProfile(t) ==
    CASE t = "Ship1" -> [max_health |-> 2,  shield_recharge_time |-> 4000, gun_reload_time |-> 1000, shots |-> 1]
      [] t = "Ship2" -> [max_health |-> 3,  shield_recharge_time |-> 3000, gun_reload_time |-> 1300, shots |-> 2]
      [] t = "Ship3" -> [max_health |-> 5,  shield_recharge_time |-> 3000, gun_reload_time |-> 600,  shots |-> 1]
      [] t = "Ship4" -> [max_health |-> 6,  shield_recharge_time |-> 2000, gun_reload_time |-> 1000, shots |-> 3]
      [] t = "Ship5" -> [max_health |-> 7,  shield_recharge_time |-> 2000, gun_reload_time |-> 1400, shots |-> 1]
      [] t = "Ship6" -> [max_health |-> 10, shield_recharge_time |-> 1000, gun_reload_time |-> 400,  shots |-> 3]

---------------------------------------------------------------------------
(* Spacecraft::collide *)

\* A plausible slip: the lethal reduce_to_one hit is applied like any other.
collide_noclamp(health, damage, reduce_to_one, sc) ==
    [health |-> health - damage,
     score  |-> IF reduce_to_one THEN sc + SCORE_HIT ELSE sc,
     ret    |-> FALSE]

\* A plausible slip: every hit scores, whoever fired.
collide_scores(health, damage, reduce_to_one, sc) ==
    IF health - damage <= 0 /\ reduce_to_one
    THEN [health |-> 1, score |-> sc + SCORE_CLAMP, ret |-> TRUE]
    ELSE [health |-> health - damage, score |-> sc + SCORE_HIT, ret |-> FALSE]

\* The new health, the new score and the returned "whether to swap".
collide(health, damage, reduce_to_one, sc) ==
    IF health - damage <= 0 /\ reduce_to_one
    THEN [health |-> 1, score |-> sc + SCORE_CLAMP, ret |-> TRUE]
    ELSE [health |-> health - damage,
          score  |-> IF reduce_to_one THEN sc + SCORE_HIT ELSE sc,
          ret    |-> FALSE]

\* What one call printed and did: the entry of trace.
Call(e, before, damage, reduce_to_one, sc, r) ==
    [ent |-> e, before |-> before, damage |-> damage,
     reduce_to_one |-> reduce_to_one, after |-> r.health, ret |-> r.ret,
     score_before |-> sc, score_after |-> r.score]

---------------------------------------------------------------------------
(* bevy::time::Timer in TimerMode::Once: elapsed saturates at the duration *)

TimerNew == [elapsed |-> 0, finished |-> FALSE, just |-> FALSE]

\* Timer::tick
TimerTick(t, duration, delta) ==
    IF t.finished
    THEN [t EXCEPT !.just = FALSE]
    ELSE IF t.elapsed + delta >= duration
         THEN [elapsed |-> duration, finished |-> TRUE, just |-> TRUE]
         ELSE [elapsed |-> t.elapsed + delta, finished |-> FALSE, just |-> FALSE]

\* Timer::reset
TimerReset(t) == TimerNew

---------------------------------------------------------------------------
(* Entities *)

Tags == {"PlayerMarker", "NPCLogic", "Captured", "Pending", "SwapToShipMarker",
         "ExplosionMarker", "RechargingShieldMarker", "ShieldTimeRemainingTimer"}
\* "Pending" is MyFateLiesInTheBalanceAndIWouldReallyAppreciateIfIfYouDidntKillMeMarker.

\* Spacecraft::from_template: the shield timer is created with its elapsed time
\* set to the duration, which does not set its finished flag.
\* rotation is the turn of the sprite's Transform away from the rotation the
\* bundle gives it, in the steps of the heading.
from_template(t, pos, tags) ==
    [health |-> ShipProfile(t).max_health,
     ship_type |-> t,
     position |-> pos,
     heading |-> 0,
     delta_rotation |-> 0,
     rotation |-> 0,
     velocity |-> 0,
     weapon_cooldown |-> TimerNew,
     shield_recharge |-> [elapsed |-> ShipProfile(t).shield_recharge_time,
                          finished |-> FALSE, just |-> FALSE],
     tags |-> tags]

Has(e, tag) == e \in DOMAIN ships /\ tag \in ships[e].tags
With(tag)   == {e \in DOMAIN ships : tag \in ships[e].tags}
Exists(e)   == e \in DOMAIN ships \/ e \in DOMAIN bullets

Dist(p, q) == IF p >= q THEN p - q ELSE q - p

Without(f, e) == [x \in DOMAIN f \ {e} |-> f[x]]

---------------------------------------------------------------------------
(* Commands: buffered by the system that issues them, applied at the end of *)
(* Update.  insert on an entity that is gone panics (bevy 0.13, B0003);    *)
(* remove and despawn on one do nothing.                                    *)

Insert(e, tag)  == [op |-> "insert",  ent |-> e, arg |-> tag]
Remove(e, tag)  == [op |-> "remove",  ent |-> e, arg |-> tag]
Despawn(e)      == [op |-> "despawn", ent |-> e, arg |-> "entity"]
DespawnImage    == [op |-> "despawn_image", ent |-> 0, arg |-> "image"]
DespawnDecision == [op |-> "despawn_decision", ent |-> 0, arg |-> "decision"]
SpawnImage      == [op |-> "spawn_image", ent |-> 0, arg |-> "image"]
SpawnDecision(d) == [op |-> "spawn_decision", ent |-> 0, arg |-> d]
SpawnBullet(b)  == [op |-> "spawn_bullet", ent |-> 0, arg |-> b]
SpawnShip(s)    == [op |-> "spawn_ship", ent |-> 0, arg |-> s]
SpawnExplosion  == [op |-> "spawn_explosion", ent |-> 0, arg |-> "explosion"]
DespawnExplosion == [op |-> "despawn_explosion", ent |-> 0, arg |-> "explosion"]

World == [ships |-> ships, bullets |-> bullets, images |-> images,
          decisions |-> decisions, nextEntity |-> nextEntity,
          panicked |-> panicked, explosions |-> explosions]

ApplyCmd(w, c) ==
    CASE c.op = "insert" ->
           IF c.ent \in DOMAIN w.ships
           THEN [w EXCEPT !.ships[c.ent].tags = @ \cup {c.arg}]
           ELSE [w EXCEPT !.panicked = TRUE]
      [] c.op = "remove" ->
           IF c.ent \in DOMAIN w.ships
           THEN [w EXCEPT !.ships[c.ent].tags = @ \ {c.arg}]
           ELSE w
      [] c.op = "despawn" ->
           [w EXCEPT !.ships = Without(@, c.ent), !.bullets = Without(@, c.ent)]
      [] c.op = "despawn_image" ->
           [w EXCEPT !.images = IF @ > 0 THEN @ - 1 ELSE 0]
      [] c.op = "despawn_decision" ->
           [w EXCEPT !.decisions = IF @ = <<>> THEN @ ELSE Tail(@)]
      [] c.op = "spawn_image" -> [w EXCEPT !.images = @ + 1]
      [] c.op = "spawn_explosion" -> [w EXCEPT !.explosions = Append(@, 0)]
      [] c.op = "despawn_explosion" ->
           [w EXCEPT !.explosions = IF @ = <<>> THEN @ ELSE Tail(@)]
      [] c.op = "spawn_decision" -> [w EXCEPT !.decisions = Append(@, c.arg)]
      [] c.op = "spawn_bullet" ->
           [w EXCEPT !.bullets = (w.nextEntity :> c.arg) @@ @,
                     !.nextEntity = @ + 1]
      [] c.op = "spawn_ship" ->
           [w EXCEPT !.ships = (w.nextEntity :> c.arg) @@ @,
                     !.nextEntity = @ + 1]

RECURSIVE ApplyAll(_, _)
ApplyAll(w, q) ==
    IF q = <<>> \/ w.panicked THEN w ELSE ApplyAll(ApplyCmd(w, Head(q)), Tail(q))

IsSpawn(c) == c.op \in {"spawn_bullet", "spawn_ship"}

RECURSIVE CountSpawns(_)
CountSpawns(q) ==
    IF q = <<>> THEN 0 ELSE (IF IsSpawn(Head(q)) THEN 1 ELSE 0) + CountSpawns(Tail(q))

---------------------------------------------------------------------------
(* The schedule: GameplayPlugin::build *)

PausedSystems == {"handle_inputs", "check_for_usage_decision"}

RegularSystems ==
    {"handle_inputs", "pause_for_captured_ship", "move_spaceships",
     "handle_npc_logic", "move_bullets", "tick_timer", "collide_bullets",
     "kill_far_bullets", "swap_ships", "update_score", "spawn_ships",
     "tick_bullet_immunity_time"}

\* The systems that run in both modes (the UI refreshers only read).
AlwaysSystems ==
    {"neo_handle_explosions", "recharge_shield", "kill_dead_ships",
     "enforce_border", "update_delayed_location"}

AllSystems == PausedSystems \cup RegularSystems \cup AlwaysSystems

\* A plausible slip: the Regular-only systems are not gated on the mode.
RunIf_ungated(s) == lifecycle = "Game"

\* The run conditions of system s.
RunIf(s) ==
    /\ lifecycle = "Game"
    /\ \/ s \in AlwaysSystems
       \/ state = "Regular" /\ s \in RegularSystems
       \/ state = "Paused" /\ s \in PausedSystems

\* System s may run now: once per Update.  The schedule fixes no order; the
\* run under analysis follows one order of the pairs in sched.before, which
\* name systems neither of which reads what the other writes.
Runs(s) ==
    /\ phase = "Update"
    /\ ~panicked
    /\ s \in sched.systems
    /\ s \notin ran
    /\ RunIf(s)
    /\ \A p \in sched.before : p[2] = s /\ RunIf(p[1]) => p[1] \in ran

\* Every system due in this frame has run.
AllRan == \A s \in sched.systems : RunIf(s) => s \in ran

UpdateDone ==
    /\ phase = "Update"
    /\ ~panicked
    /\ AllRan

NoCmds == [s \in AllSystems |-> <<>>]

PendingSpawns ==
    LET RECURSIVE Sum(_)
        Sum(S) == IF S = {} THEN 0
                  ELSE LET s == CHOOSE x \in S : TRUE
                       IN CountSpawns(cmds[s]) + Sum(S \ {s})
    IN Sum(AllSystems)

\* There are n fresh entity ids left for spawns not yet applied.
Room(n) == nextEntity + PendingSpawns + n <= MaxEntities + 1

\* The StateTransition schedule: queued state changes take effect.
StateTransition ==
    /\ phase = "StateTransition"
    /\ ~panicked
    /\ lifecycle' = IF nextLifecycle = "None" THEN lifecycle ELSE nextLifecycle
    /\ state' = IF nextState = "None" THEN state ELSE nextState
    /\ nextLifecycle' = "None"
    /\ nextState' = "None"
    /\ ran' = {}
    /\ phase' = "Update"
    /\ trace' = <<>>
    /\ UNCHANGED <<ships, bullets, images, decisions, score, events, cmds,
                   sched, panicked, nextEntity, spawn_points, delayed, dialogue,
                   explosions>>

\* The systems with Commands to apply.
Flushing == {s \in AllSystems : cmds[s] # <<>>}

RECURSIVE Orders(_)
\* The orders in which the systems of S can be taken.
Orders(S) ==
    IF S = {} THEN {<<>>}
    ELSE UNION {{<<s>> \o order : order \in Orders(S \ {s})} : s \in S}

RECURSIVE Queue(_)
\* The buffers of the systems of an order, one after the other.
Queue(order) ==
    IF order = <<>> THEN <<>> ELSE cmds[Head(order)] \o Queue(Tail(order))

\* The end of Update: the buffered Commands are applied, system by system.
apply_deferred ==
    /\ UpdateDone
    /\ Flushing # {}
    /\ \E order \in Orders(Flushing) :
       LET w == ApplyAll(World, Queue(order))
       IN /\ ships' = w.ships
          /\ bullets' = w.bullets
          /\ images' = w.images
          /\ decisions' = w.decisions
          /\ nextEntity' = w.nextEntity
          /\ panicked' = w.panicked
          /\ explosions' = w.explosions
    /\ cmds' = NoCmds
    /\ trace' = <<>>
    /\ UNCHANGED <<lifecycle, nextLifecycle, state, nextState, score, events,
                   ran, phase, sched, spawn_points, delayed, dialogue>>

Position(e) == IF e \in DOMAIN ships THEN ships[e].position ELSE bullets[e].position

\* The physics collaborator reports a pair when the two colliders overlap.
Touching(a, b) == Dist(Position(a), Position(b)) = 0

Pairs ==
    {p \in (DOMAIN ships \cup DOMAIN bullets) \X (DOMAIN ships \cup DOMAIN bullets) :
        p[1] # p[2] /\ Touching(p[1], p[2])}

\* The run takes further collisions.
Bounded ==
    /\ score.score < MaxScore
    /\ \A e \in DOMAIN ships : ships[e].health > 0 - MaxDrop
    /\ Len(explosions) < MaxExplosions

\* PostUpdate: the physics step sends the frame's collision-start events;
\* nothing moves in a Paused frame, so none starts there.  Events the reader
\* left unread are still buffered or already dropped.
PostUpdate ==
    /\ UpdateDone
    /\ cmds = NoCmds
    /\ \E kept \in {events, <<>>} :
         \E n \in 0..(MaxEvents - Len(kept)) :
           \E new \in [1..n -> Pairs] :
             /\ (n > 0 => lifecycle = "Game" /\ state = "Regular" /\ Bounded)
             /\ events' = kept \o new
    /\ phase' = "StateTransition"
    /\ trace' = <<>>
    /\ UNCHANGED <<lifecycle, nextLifecycle, state, nextState, ships, bullets,
                   images, decisions, score, cmds, ran, sched, panicked,
                   nextEntity, spawn_points, delayed, dialogue,
                   explosions>>

---------------------------------------------------------------------------
(* collide_bullets *)

\* The ships of the system's query: Without<the decision-pending marker>.
Hittable == {e \in DOMAIN ships : "Pending" \notin ships[e].tags}

shotby_p(x) == x \in DOMAIN bullets /\ bullets[x].player_shot

\* A plausible slip: the immunity test reads the timer the wrong way round.
Immune_expired(x) ==
    \E k \in DOMAIN bullets :
        bullets[k].shooter = x /\ bullets[k].immunity_time.finished

\* Some bullet fired by x is still inside its self-immunity window.
Immune(x) ==
    \E k \in DOMAIN bullets :
        bullets[k].shooter = x /\ ~bullets[k].immunity_time.finished

\* println!("Bypassing damage ..."): ship x of the pair <<a, b>> is immune.
Bypassed(x, a, b) == [bypassing |-> x, a |-> a, b |-> b]

\* The result of resolving one event: ships, score, commands, calls.
Outcome(sh, sc, q, tr) == [ships |-> sh, score |-> sc, q |-> q, trace |-> tr]

\* The first half of either branch: the ship found in the query is x, the
\* other entity of the pair is y.
HitFound(x, y) ==
    IF score.survived_time > GRACE_MS
    THEN LET r == collide(ships[x].health, HIT, shotby_p(y), score.score)
         IN Outcome([ships EXCEPT ![x].health = r.health], r.score,
                    <<Insert(x, "ExplosionMarker")>>
                        \o (IF r.ret THEN <<Insert(x, "Pending")>> ELSE <<>>),
                    <<Call(x, ships[x].health, HIT, shotby_p(y), score.score, r)>>)
    ELSE Outcome(ships, score.score, <<>>, <<>>)

\* A second collide on ship s of outcome o, its result dropped.
AlsoHit(o, s, by_player) ==
    LET r == collide(o.ships[s].health, HIT, by_player, o.score)
    IN Outcome([o.ships EXCEPT ![s].health = r.health], r.score, o.q,
               Append(o.trace, Call(s, o.ships[s].health, HIT, by_player, o.score, r)))

\* The branch `if &entity == a`: a is damaged; b is damaged if it is a ship
\* of the query, and despawned otherwise.
BranchA(a, b) ==
    LET o == HitFound(a, b)
    IN IF ~Exists(b) THEN o
       ELSE IF b \in Hittable THEN AlsoHit(o, b, shotby_p(a))
       ELSE [o EXCEPT !.q = Append(@, Despawn(b))]

\* A plausible slip the other way: the b branch written like the a branch.
BranchB_symmetric(a, b) ==
    LET o == HitFound(b, a)
    IN IF ~Exists(a) THEN o
       ELSE IF a \in Hittable THEN AlsoHit(o, a, shotby_p(b))
       ELSE [o EXCEPT !.q = Append(@, Despawn(a))]

\* The branch `else if &entity == b`: b is damaged; then the lookup for the
\* other side searches for b again, finds it, and damages b a second time.
BranchB(a, b) ==
    LET o == HitFound(b, a)
    IN IF ~Exists(a) THEN o ELSE AlsoHit(o, b, shotby_p(a))

\* The index of the first unread event naming a ship of the query, or 0.
FirstMatch ==
    LET M == {i \in 1..Len(events) :
                events[i][1] \in Hittable \/ events[i][2] \in Hittable}
    IN IF M = {} THEN 0 ELSE CHOOSE i \in M : \A j \in M : i <= j

collide_bullets ==
    /\ Runs("collide_bullets")
    /\ ran' = ran \cup {"collide_bullets"}
    /\ IF FirstMatch = 0
       THEN /\ events' = <<>>
            /\ trace' = <<>>
            /\ UNCHANGED <<ships, score, cmds>>
       ELSE LET a == events[FirstMatch][1]
                b == events[FirstMatch][2]
            IN \* the function returns after this event: the rest stays unread
               /\ events' = SubSeq(events, FirstMatch + 1, Len(events))
               /\ \E first \in ({a, b} \cap Hittable) :
                    \* the query yields `first` before the pair's other ship
                    IF Immune(first)
                    THEN /\ trace' = <<Bypassed(first, a, b)>>
                         /\ UNCHANGED <<ships, score, cmds>>
                    ELSE LET o == IF first = a THEN BranchA(a, b) ELSE BranchB(a, b)
                         IN /\ ships' = o.ships
                            /\ score' = [score EXCEPT !.score = o.score]
                            /\ cmds' = [cmds EXCEPT !["collide_bullets"] = o.q]
                            /\ trace' = o.trace
    /\ UNCHANGED <<lifecycle, nextLifecycle, state, nextState, bullets, images,
                   decisions, phase, sched, panicked, nextEntity, spawn_points,
                   delayed, dialogue,
                   explosions>>

---------------------------------------------------------------------------
(* Movement units.  One turn step is max_velocity * TURN_SPEED, one velocity *)
(* step is max_velocity * ACCELERATION_SPEED; Dir is the 1-D shadow of       *)
(* (sin heading, cos heading): a turn step reverses it.                      *)

TURN_STEP   == 1
VEL_STEP    == 1
VEL_MAX     == 2     \* max_velocity
VEL_MIN     == -1    \* -0.3 * max_velocity
BULLET_VEL  == 1     \* base_bullet_velocity
MaxTurn     == 1     \* the heading is followed MaxTurn steps either way

Dir(heading) == IF heading % 2 = 0 THEN 1 ELSE -1

Clamp(x, lo, hi) == IF x < lo THEN lo ELSE IF x > hi THEN hi ELSE x

\* Spacecraft::rotate
rotate(s, amount) ==
    [s EXCEPT !.heading = @ + amount, !.delta_rotation = @ - amount]

\* Spacecraft::end_frame
end_frame(s) == [s EXCEPT !.delta_rotation = 0]

\* ship_fire: how many bullets a ship of type t spawns
ShotCount(t) ==
    CASE t \in {"Ship1", "Ship3", "Ship5"} -> 1
      [] t = "Ship2" -> 2
      [] t \in {"Ship4", "Ship6"} -> 3

\* spawn_bullet: the Bullet a parent spawns (the lateral and forward offsets
\* stay inside the parent's cell)
spawn_bullet(parent, parent_entity, player_shot) ==
    [heading |-> parent.heading,
     position |-> parent.position,
     velocity |-> BULLET_VEL + (IF parent.velocity > 0 THEN parent.velocity ELSE 0),
     shooter |-> parent_entity,
     immunity_time |-> TimerNew,
     player_shot |-> player_shot]

\* ship_fire: the spawn commands of one firing
ship_fire(parent, parent_entity, player_shot) ==
    [i \in 1..ShotCount(parent.ship_type) |->
        SpawnBullet(spawn_bullet(parent, parent_entity, player_shot))]

---------------------------------------------------------------------------
(* handle_inputs *)

PressKeys == {"ArrowLeft", "ArrowRight", "ArrowUp", "ArrowDown", "Space",
              "KeyS", "Enter"}
DigitKeys == {"Digit1", "Digit2", "Digit3"}

\* What the keyboard may report in one frame: the keys held (pressed) and
\* the decision keys just released.
KeySets == {k \in SUBSET sched.keys : Cardinality(k) <= MaxKeys}

\* The player of handle_inputs' query.
Controllable ==
    {e \in With("PlayerMarker") :
        /\ "RechargingShieldMarker" \notin ships[e].tags
        /\ "ShieldTimeRemainingTimer" \notin ships[e].tags}

DecisionKey(keys) ==
    IF "Digit1" \in keys THEN "Transfer"
    ELSE IF "Digit2" \in keys THEN "Keep"
    ELSE IF "Digit3" \in keys THEN "Destroy"
    ELSE "None"

\* A plausible slip: the acceleration keys are gated on the mode like the rest.
Accelerates_gated(keys, key) == key \in keys /\ state # "Paused"

\* ArrowUp and ArrowDown act in both modes.
Accelerates(keys, key) == key \in keys

handle_inputs ==
    /\ Runs("handle_inputs")
    /\ ran' = ran \cup {"handle_inputs"}
    /\ trace' = <<>>
    /\ IF Cardinality(Controllable) # 1
       THEN UNCHANGED <<ships, cmds, dialogue>>
       ELSE \E keys \in KeySets :
            LET e  == CHOOSE x \in Controllable : TRUE
                live == state # "Paused"
                s0 == end_frame(ships[e])
                s1 == IF "ArrowLeft" \in keys /\ live THEN rotate(s0, 0 - TURN_STEP) ELSE s0
                s2 == IF "ArrowRight" \in keys /\ live THEN rotate(s1, TURN_STEP) ELSE s1
                s3 == IF Accelerates(keys, "ArrowUp")
                      THEN [s2 EXCEPT !.velocity = Clamp(@ + VEL_STEP, VEL_MIN, VEL_MAX)]
                      ELSE s2
                s4 == IF Accelerates(keys, "ArrowDown")
                      THEN [s3 EXCEPT !.velocity = Clamp(@ - VEL_STEP, VEL_MIN, VEL_MAX)]
                      ELSE s3
                fire == "Space" \in keys /\ live /\ s4.weapon_cooldown.finished
                s5 == IF fire THEN [s4 EXCEPT !.weapon_cooldown = TimerReset(@)] ELSE s4
                shield == "KeyS" \in keys /\ live /\ s5.shield_recharge.finished
                s6 == IF shield THEN [s5 EXCEPT !.shield_recharge = TimerReset(@)] ELSE s5
                d  == DecisionKey(keys)
            IN /\ s6.heading \in (0 - MaxTurn)..MaxTurn
               /\ fire => Room(ShotCount(s4.ship_type))
               /\ ships' = [ships EXCEPT ![e] = s6]
               /\ cmds' = [cmds EXCEPT !["handle_inputs"] =
                    (IF fire THEN ship_fire(s4, e, TRUE) ELSE <<>>)
                    \o (IF shield THEN <<Insert(e, "RechargingShieldMarker")>> ELSE <<>>)
                    \o (IF d # "None" /\ ~live THEN <<SpawnDecision(d)>> ELSE <<>>)]
               /\ dialogue' = IF "Enter" \in keys THEN FALSE ELSE dialogue
    /\ UNCHANGED <<lifecycle, nextLifecycle, state, nextState, bullets, images,
                   decisions, score, events, phase, sched, panicked, nextEntity,
                   spawn_points, delayed, explosions>>

---------------------------------------------------------------------------
(* pause_for_captured_ship *)

\* A plausible slip: the pause is requested without spawning the prompt.
PausePrompt_missing == <<>>

\* The prompt the pause spawns.
PausePrompt == <<SpawnImage>>

pause_for_captured_ship ==
    /\ Runs("pause_for_captured_ship")
    /\ ran' = ran \cup {"pause_for_captured_ship"}
    /\ trace' = <<>>
    /\ IF Cardinality(With("Pending")) = 1
       THEN /\ nextState' = "Paused"
            /\ cmds' = [cmds EXCEPT !["pause_for_captured_ship"] = PausePrompt]
       ELSE UNCHANGED <<nextState, cmds>>
    /\ UNCHANGED <<lifecycle, nextLifecycle, state, ships, bullets, images,
                   decisions, score, events, phase, sched, panicked, nextEntity,
                   spawn_points, delayed, dialogue,
                   explosions>>

---------------------------------------------------------------------------
(* check_for_usage_decision *)

\* The commands of a decision for one pending ship.
DecisionCmds(decision, e) ==
    CASE decision = "Transfer" -> <<Insert(e, "SwapToShipMarker"), Remove(e, "Pending")>>
      [] decision = "Keep"     -> <<Insert(e, "Captured"), Remove(e, "Pending")>>
      [] decision = "Destroy"  -> <<Remove(e, "Pending")>>

RECURSIVE ForEach(_, _, _)
\* The concatenation of Op(x, e) over the entities e of S, x being fixed.
ForEach(Op(_, _), x, S) ==
    IF S = {} THEN <<>>
    ELSE LET e == CHOOSE y \in S : \A z \in S : y <= z
         IN Op(x, e) \o ForEach(Op, x, S \ {e})

\* A plausible slip: Destroy goes through the reduce-to-one rule.
DestroyHit_reduced(h, sc) == collide(h, LETHAL, TRUE, sc)

\* The damage of the Destroy decision.
DestroyHit(h, sc) == collide(h, LETHAL, FALSE, sc)

\* A plausible slip: the mode is not set back.
ResumeState_missing == nextState

\* state.set(GameState::Regular)
ResumeState == "Regular"

check_for_usage_decision ==
    /\ Runs("check_for_usage_decision")
    /\ ran' = ran \cup {"check_for_usage_decision"}
    /\ IF Len(decisions) # 1
       THEN /\ trace' = <<>>
            /\ UNCHANGED <<ships, score, cmds, nextState, panicked>>
       ELSE LET d == decisions[1]
                P == With("Pending")
                hit(e) == DestroyHit(ships[e].health, score.score)
            IN /\ ships' = IF d = "Destroy"
                           THEN [e \in DOMAIN ships |->
                                   IF e \in P
                                   THEN [ships[e] EXCEPT !.health = hit(e).health]
                                   ELSE ships[e]]
                           ELSE ships
               /\ score' = IF d = "Destroy" /\ P # {}
                           THEN [score EXCEPT !.score =
                                    hit(CHOOSE e \in P : TRUE).score]
                           ELSE score
               /\ trace' = IF d = "Destroy"
                           THEN LET one(x, e) ==
                                      <<Call(e, ships[e].health, LETHAL, FALSE,
                                             score.score, hit(e))>>
                                IN ForEach(one, d, P)
                           ELSE <<>>
               /\ IF images # 1
                  THEN \* image.single() panics
                       /\ panicked' = TRUE
                       /\ UNCHANGED <<cmds, nextState>>
                  ELSE /\ panicked' = FALSE
                       /\ cmds' = [cmds EXCEPT !["check_for_usage_decision"] =
                                     ForEach(DecisionCmds, d, P)
                                     \o <<DespawnImage, DespawnDecision>>]
                       /\ nextState' = ResumeState
    /\ UNCHANGED <<lifecycle, nextLifecycle, state, bullets, images, decisions,
                   events, phase, sched, nextEntity, spawn_points, delayed,
                   dialogue,
                   explosions>>

---------------------------------------------------------------------------
(* swap_ships *)

swap_ships ==
    /\ Runs("swap_ships")
    /\ ran' = ran \cup {"swap_ships"}
    /\ trace' = <<>>
    /\ IF Cardinality(With("SwapToShipMarker")) = 1
          /\ Cardinality(With("PlayerMarker")) = 1
       THEN LET dest == CHOOSE e \in With("SwapToShipMarker") : TRUE
                curr == CHOOSE e \in With("PlayerMarker") : TRUE
            IN cmds' = [cmds EXCEPT !["swap_ships"] =
                 <<Remove(curr, "PlayerMarker"), Insert(curr, "NPCLogic"),
                   Remove(dest, "NPCLogic"), Remove(dest, "SwapToShipMarker"),
                   Insert(dest, "PlayerMarker")>>]
       ELSE UNCHANGED cmds
    /\ UNCHANGED <<lifecycle, nextLifecycle, state, nextState, ships, bullets,
                   images, decisions, score, events, phase, sched, panicked,
                   nextEntity, spawn_points, delayed, dialogue, explosions>>

---------------------------------------------------------------------------
(* kill_dead_ships, kill_far_bullets, enforce_border, neo_handle_explosions *)

CELL == 5    \* distance units in one cell of the line

Distance(p, q) == CELL * Dist(p, q)

\* A plausible slip: the player is found whether or not it is flagged.
VisiblePlayer_any == With("PlayerMarker")

\* The player as kill_dead_ships and enforce_border query it.
VisiblePlayer ==
    {e \in With("PlayerMarker") : "ExplosionMarker" \notin ships[e].tags}

\* The ships kill_dead_ships iterates.
Killable ==
    {e \in DOMAIN ships :
        ships[e].tags \cap {"ExplosionMarker", "PlayerMarker", "Pending"} = {}}

\* A plausible slip: only ships that ran out of health are removed.
Dead_healthonly(s, player) == s.health <= 0

\* kill_dead_ships' test on one ship
Dead(s, player) ==
    s.health <= 0 \/ Distance(s.position, player.position) >= CULL_DISTANCE

kill_dead_ships ==
    /\ Runs("kill_dead_ships")
    /\ ran' = ran \cup {"kill_dead_ships"}
    /\ trace' = <<>>
    /\ IF Cardinality(VisiblePlayer) = 1
       THEN LET entity == CHOOSE e \in VisiblePlayer : TRUE
                player == ships[entity]
                one(p, e) == IF Dead(ships[e], p) THEN <<Despawn(e)>> ELSE <<>>
            IN /\ cmds' = [cmds EXCEPT !["kill_dead_ships"] =
                    ForEach(one, player, Killable)
                    \o (IF player.health <= 0 THEN <<Despawn(entity)>> ELSE <<>>)]
               /\ nextLifecycle' = IF player.health <= 0 THEN "EndScreen"
                                   ELSE nextLifecycle
       ELSE UNCHANGED <<cmds, nextLifecycle>>
    /\ UNCHANGED <<lifecycle, state, nextState, ships, bullets, images,
                   decisions, score, events, phase, sched, panicked, nextEntity,
                   spawn_points, delayed, dialogue, explosions>>

kill_far_bullets ==
    /\ Runs("kill_far_bullets")
    /\ ran' = ran \cup {"kill_far_bullets"}
    /\ trace' = <<>>
    /\ IF Cardinality(With("PlayerMarker")) = 1
       THEN LET player == ships[CHOOSE e \in With("PlayerMarker") : TRUE]
                one(p, k) == IF Distance(bullets[k].position, p.position) > BULLET_RANGE
                             THEN <<Despawn(k)>> ELSE <<>>
            IN cmds' = [cmds EXCEPT !["kill_far_bullets"] =
                          ForEach(one, player, DOMAIN bullets)]
       ELSE UNCHANGED cmds
    /\ UNCHANGED <<lifecycle, nextLifecycle, state, nextState, ships, bullets,
                   images, decisions, score, events, phase, sched, panicked,
                   nextEntity, spawn_points, delayed, dialogue, explosions>>

enforce_border ==
    /\ Runs("enforce_border")
    /\ ran' = ran \cup {"enforce_border"}
    /\ IF Cardinality(VisiblePlayer) = 1
       THEN LET entity == CHOOSE e \in VisiblePlayer : TRUE
                player == ships[entity]
                dist == Distance(player.position, 0)
                r == collide(player.health, LETHAL, FALSE, score.score)
            IN IF dist >= LETHAL_DISTANCE
               THEN /\ ships' = [ships EXCEPT ![entity].health = r.health]
                    /\ score' = [score EXCEPT !.score = r.score]
                    /\ cmds' = [cmds EXCEPT !["enforce_border"] =
                                  <<Insert(entity, "ExplosionMarker")>>]
                    /\ trace' = <<Call(entity, player.health, LETHAL, FALSE,
                                       score.score, r)>>
                    /\ dialogue' = TRUE
               ELSE /\ dialogue' = (dist >= WARN_DISTANCE)
                    /\ trace' = <<>>
                    /\ UNCHANGED <<ships, score, cmds>>
       ELSE /\ trace' = <<>>
            /\ UNCHANGED <<ships, score, cmds, dialogue>>
    /\ UNCHANGED <<lifecycle, nextLifecycle, state, nextState, bullets, images,
                   decisions, events, phase, sched, panicked, nextEntity,
                   spawn_points, delayed, explosions>>

LAST_FRAME == 5    \* the last atlas index of an explosion

neo_handle_explosions ==
    /\ Runs("neo_handle_explosions")
    /\ ran' = ran \cup {"neo_handle_explosions"}
    /\ trace' = <<>>
    /\ LET one(x, e) == <<SpawnExplosion, Remove(e, "ExplosionMarker")>>
           over == {i \in 1..Len(explosions) : explosions[i] >= LAST_FRAME}
       IN /\ cmds' = [cmds EXCEPT !["neo_handle_explosions"] =
                ForEach(one, 0, With("ExplosionMarker"))
                \o [i \in 1..Cardinality(over) |-> DespawnExplosion]]
          /\ explosions' = [i \in 1..Len(explosions) |->
                IF explosions[i] < LAST_FRAME THEN explosions[i] + 1
                ELSE explosions[i]]
    /\ UNCHANGED <<lifecycle, nextLifecycle, state, nextState, ships, bullets,
                   images, decisions, score, events, phase, sched, panicked,
                   nextEntity, spawn_points, delayed, dialogue>>

---------------------------------------------------------------------------
(* The Regular-only clocks and movers: tick_timer, move_spaceships,         *)
(* move_bullets, tick_bullet_immunity_time, update_score                    *)

MaxPos  == 4       \* entities are followed MaxPos cells either way
MaxTime == 4000    \* the survival clock is followed up to MaxTime ms

SCORE_PERIOD_MS == 10000
SCORE_TICK      == 5

Reload(t) == ShipProfile(t).gun_reload_time

tick_timer ==
    /\ Runs("tick_timer")
    /\ ran' = ran \cup {"tick_timer"}
    /\ trace' = <<>>
    /\ ships' = [e \in DOMAIN ships |->
          [ships[e] EXCEPT !.weapon_cooldown =
              TimerTick(@, Reload(ships[e].ship_type), DELTA_MS)]]
    /\ UNCHANGED <<lifecycle, nextLifecycle, state, nextState, bullets, images,
                   decisions, score, events, cmds, phase, sched, panicked,
                   nextEntity, spawn_points, delayed, dialogue, explosions>>

\* One step along the line.
Advance(position, heading, velocity) == position + Dir(heading) * velocity

move_spaceships ==
    /\ Runs("move_spaceships")
    /\ ran' = ran \cup {"move_spaceships"}
    /\ trace' = <<>>
    /\ ships' = [e \in DOMAIN ships |->
          [ships[e] EXCEPT
              !.shield_recharge =
                  TimerTick(@, ShipProfile(ships[e].ship_type).shield_recharge_time,
                            DELTA_MS),
              !.position = Advance(@, ships[e].heading, ships[e].velocity),
              !.rotation = @ + ships[e].delta_rotation]]
    /\ \A e \in DOMAIN ships : ships'[e].position \in (0 - MaxPos)..MaxPos
    /\ \A e \in DOMAIN ships :
          ships'[e].rotation \in (0 - MaxPos - MaxTurn)..(MaxPos + MaxTurn)
    /\ UNCHANGED <<lifecycle, nextLifecycle, state, nextState, bullets, images,
                   decisions, score, events, cmds, phase, sched, panicked,
                   nextEntity, spawn_points, delayed, dialogue, explosions>>

move_bullets ==
    /\ Runs("move_bullets")
    /\ ran' = ran \cup {"move_bullets"}
    /\ trace' = <<>>
    /\ bullets' = [k \in DOMAIN bullets |->
          [bullets[k] EXCEPT
              !.position = Advance(@, bullets[k].heading, bullets[k].velocity)]]
    /\ \A k \in DOMAIN bullets : bullets'[k].position \in (0 - 2 * MaxPos)..(2 * MaxPos)
    /\ UNCHANGED <<lifecycle, nextLifecycle, state, nextState, ships, images,
                   decisions, score, events, cmds, phase, sched, panicked,
                   nextEntity, spawn_points, delayed, dialogue, explosions>>

tick_bullet_immunity_time ==
    /\ Runs("tick_bullet_immunity_time")
    /\ ran' = ran \cup {"tick_bullet_immunity_time"}
    /\ trace' = <<>>
    /\ bullets' = [k \in DOMAIN bullets |->
          [bullets[k] EXCEPT !.immunity_time = TimerTick(@, IMMUNITY_MS, DELTA_MS)]]
    /\ UNCHANGED <<lifecycle, nextLifecycle, state, nextState, ships, images,
                   decisions, score, events, cmds, phase, sched, panicked,
                   nextEntity, spawn_points, delayed, dialogue, explosions>>

\* The survival clock is followed up to MaxTime, or up to the horizon of the
\* run under analysis when it names a later one.
Horizon == IF "horizon" \in DOMAIN sched THEN sched.horizon ELSE MaxTime

update_score ==
    /\ Runs("update_score")
    /\ ran' = ran \cup {"update_score"}
    /\ trace' = <<>>
    /\ score.survived_time + DELTA_MS <= Horizon
    /\ score.score < MaxScore
    /\ LET due == score.add_score_timer + DELTA_MS >= SCORE_PERIOD_MS
       IN score' = [score |-> IF due THEN score.score + SCORE_TICK ELSE score.score,
                    add_score_timer |-> IF due THEN 0
                                        ELSE score.add_score_timer + DELTA_MS,
                    survived_time |-> score.survived_time + DELTA_MS]
    /\ UNCHANGED <<lifecycle, nextLifecycle, state, nextState, ships, bullets,
                   images, decisions, events, cmds, phase, sched, panicked,
                   nextEntity, spawn_points, delayed, dialogue, explosions>>

---------------------------------------------------------------------------
(* recharge_shield.  The value of ShieldTimeRemainingTimer is ticked here   *)
(* and read nowhere; the component is followed as a tag.                    *)

\* A plausible slip: the recharge adds its point of health without the cap.
Recharged_uncapped(s) == s.health + 1

\* The health a completed recharge leaves: health + 1, at most max_health.
Recharged(s) ==
    IF s.health + 1 < ShipProfile(s.ship_type).max_health
    THEN s.health + 1 ELSE ShipProfile(s.ship_type).max_health

recharge_shield ==
    /\ Runs("recharge_shield")
    /\ ran' = ran \cup {"recharge_shield"}
    /\ trace' = <<>>
    /\ LET unsetup == {e \in With("RechargingShieldMarker") :
                          "ShieldTimeRemainingTimer" \notin ships[e].tags}
           setup == {e \in With("ShieldTimeRemainingTimer") :
                          "RechargingShieldMarker" \notin ships[e].tags}
           begin(x, e) == <<Remove(e, "RechargingShieldMarker"),
                            Insert(e, "ShieldTimeRemainingTimer")>>
           finish(x, e) == IF ships[e].shield_recharge.just
                           THEN <<Remove(e, "ShieldTimeRemainingTimer")>> ELSE <<>>
       IN /\ cmds' = [cmds EXCEPT !["recharge_shield"] =
                ForEach(begin, 0, unsetup) \o ForEach(finish, 0, setup)]
          /\ ships' = [e \in DOMAIN ships |->
                IF e \in setup
                THEN [ships[e] EXCEPT
                        !.velocity = 0,
                        !.delta_rotation = 0,
                        !.health = IF ships[e].shield_recharge.just
                                   THEN Recharged(ships[e]) ELSE @]
                ELSE ships[e]]
    /\ UNCHANGED <<lifecycle, nextLifecycle, state, nextState, bullets, images,
                   decisions, score, events, phase, sched, panicked, nextEntity,
                   spawn_points, delayed, dialogue, explosions>>

---------------------------------------------------------------------------
(* update_delayed_location *)

DELAY_MS   == 2000
BUFFER_MAX == 10

RECURSIVE DropOld(_, _)
\* The buffer without its leading entries older than DELAY_MS.
DropOld(buf, now) ==
    IF buf # <<>> /\ Head(buf).t < now - DELAY_MS THEN DropOld(Tail(buf), now)
    ELSE buf

update_delayed_location ==
    /\ Runs("update_delayed_location")
    /\ ran' = ran \cup {"update_delayed_location"}
    /\ trace' = <<>>
    /\ LET kept == DropOld(delayed.buffered_locations, score.survived_time)
           buf == IF Cardinality(With("PlayerMarker")) = 1
                  THEN IF Len(kept) <= BUFFER_MAX
                       THEN Append(kept,
                              [pos |-> ships[CHOOSE e \in With("PlayerMarker") : TRUE].position,
                               t |-> score.survived_time])
                       ELSE kept
                  ELSE delayed.buffered_locations
       IN delayed' = [buffered_locations |-> buf,
                      current_location |-> IF buf # <<>> THEN buf[1].pos
                                           ELSE delayed.current_location]
    /\ UNCHANGED <<lifecycle, nextLifecycle, state, nextState, ships, bullets,
                   images, decisions, score, events, cmds, phase, sched, panicked,
                   nextEntity, spawn_points, dialogue, explosions>>

---------------------------------------------------------------------------
(* handle_npc_logic *)

NPC_VEL    == 1     \* 0.15 * max_speed, one cell a frame
NEAR_TENTH == 12    \* 1.2 distance units, in tenths
STOP_TENTH == 5     \* 0.5 distance units, in tenths

\* The speed an NPC picks at a distance.
IdealVelocity(dist) == IF 10 * dist < STOP_TENTH THEN 0 ELSE NPC_VEL

\* The heading that points from position p to position q.
IdealHeading(p, q) == IF q >= p THEN 0 ELSE 1

\* end_frame, turn towards the target, pick the speed.
Steer(craft, target) ==
    LET c0 == end_frame(craft)
        turn == Clamp(IdealHeading(c0.position, target) - c0.heading,
                      0 - TURN_STEP, TURN_STEP)
        c1 == rotate(c0, turn)
    IN [c1 EXCEPT !.velocity = IdealVelocity(Distance(c0.position, target))]

InRange(craft, target) ==
    craft.weapon_cooldown.finished /\ 10 * Distance(craft.position, target) < NEAR_TENTH

Enemies == {e \in With("NPCLogic") :
               ships[e].tags \cap {"Captured", "PlayerMarker"} = {}}

Allies == {e \in With("NPCLogic") :
               "Captured" \in ships[e].tags /\ "PlayerMarker" \notin ships[e].tags}

\* The positions of the enemies nearest to position p.
Nearest(p) ==
    {ships[e].position : e \in {x \in Enemies :
        \A y \in Enemies : Dist(p, ships[x].position) <= Dist(p, ships[y].position)}}

handle_npc_logic ==
    /\ Runs("handle_npc_logic")
    /\ ran' = ran \cup {"handle_npc_logic"}
    /\ trace' = <<>>
    /\ LET home == delayed.current_location
           ready == {e \in Enemies : InRange(ships[e], home)}
       IN \E firing \in SUBSET ready :
          \E aim \in [Allies -> IF Enemies = {} THEN {0} ELSE
                                UNION {Nearest(ships[a].position) : a \in Allies}] :
            LET steered(e) ==
                  IF e \in Enemies THEN Steer(ships[e], home)
                  ELSE IF e \in Allies /\ Enemies # {} THEN Steer(ships[e], aim[e])
                  ELSE ships[e]
                shoots(e) ==
                  \/ e \in firing
                  \/ e \in Allies /\ Enemies # {} /\ InRange(ships[e], aim[e])
                resets(e) == e \in ready \/ shoots(e)
                shot(x, e) == IF shoots(e) THEN ship_fire(steered(e), e, FALSE)
                              ELSE <<>>
                q == ForEach(shot, 0, Enemies) \o ForEach(shot, 0, Allies)
            IN /\ \A a \in Allies :
                    Enemies # {} => aim[a] \in Nearest(ships[a].position)
               /\ Room(Len(q))
               /\ \A e \in DOMAIN ships :
                    steered(e).heading \in (0 - MaxTurn)..MaxTurn
               /\ ships' = [e \in DOMAIN ships |->
                    IF resets(e)
                    THEN [steered(e) EXCEPT !.weapon_cooldown = TimerReset(@)]
                    ELSE steered(e)]
               /\ cmds' = [cmds EXCEPT !["handle_npc_logic"] = q]
    /\ UNCHANGED <<lifecycle, nextLifecycle, state, nextState, bullets, images,
                   decisions, score, events, phase, sched, panicked, nextEntity,
                   spawn_points, delayed, dialogue, explosions>>

---------------------------------------------------------------------------
(* spawn_ships *)

\* points_for_ship
points_for_ship(t) ==
    CASE t = "Ship1" -> 4  [] t = "Ship2" -> 7  [] t = "Ship3" -> 15
      [] t = "Ship4" -> 21 [] t = "Ship5" -> 31 [] t = "Ship6" -> 50

\* points_currently_deployed: the number of ships it is handed
points_currently_deployed(fleet) == Cardinality(fleet)

\* The ships spawn_ships counts as enemies.
Fleet == {e \in DOMAIN ships : ships[e].tags \cap {"PlayerMarker", "Captured"} = {}}

\* take_ship_stock: the tallies t1..t6, each times 100 * count, less the
\* target share times count; Ship4 is tallied under t3, Ship5 under t4,
\* Ship6 under t5 and nothing under t6.
Tally(fleet, i) ==
    LET n(T) == Cardinality({e \in fleet : ships[e].ship_type \in T})
        count == Cardinality(fleet)
    IN CASE i = 1 -> 100 * n({"Ship1"}) - 44 * count
         [] i = 2 -> 100 * n({"Ship2"}) - 25 * count
         [] i = 3 -> 100 * n({"Ship3", "Ship4"}) - 15 * count
         [] i = 4 -> 100 * n({"Ship5"}) - 10 * count
         [] i = 5 -> 100 * n({"Ship6"}) - 5 * count
         [] i = 6 -> 0 - count

TypeOf(i) ==
    CASE i = 1 -> "Ship1" [] i = 2 -> "Ship2" [] i = 3 -> "Ship3"
      [] i = 4 -> "Ship4" [] i = 5 -> "Ship5" [] i = 6 -> "Ship6"

\* take_ship_stock: the first type of the stable ascending sort
take_ship_stock(fleet) ==
    TypeOf(CHOOSE i \in 1..6 :
        \A j \in 1..6 : Tally(fleet, i) < Tally(fleet, j)
                        \/ (Tally(fleet, i) = Tally(fleet, j) /\ i <= j))

\* ceil((0.4 * dist + seconds / 20 + score / 50) * 0.25)
Income(dist, ms, sc) == (8000 * dist + ms + 400 * sc + 79999) \div 80000

RECURSIVE Purchases_nonstrict(_, _)
\* A plausible slip: the loop also buys when the budget equals the price.
Purchases_nonstrict(budget, price) ==
    IF budget >= price THEN 1 + Purchases_nonstrict(budget - price, price) ELSE 0

RECURSIVE Purchases(_, _)
\* How many ships of one price the loop buys from a budget.
Purchases(budget, price) ==
    IF budget > price THEN 1 + Purchases(budget - price, price) ELSE 0

\* Where spawn_enemy puts a ship: beside the player, either side.
SpawnOffsets == {0 - 1, 1}

spawn_ships ==
    /\ Runs("spawn_ships")
    /\ ran' = ran \cup {"spawn_ships"}
    /\ trace' = <<>>
    /\ IF Cardinality(With("PlayerMarker")) = 1
       THEN LET player == ships[CHOOSE e \in With("PlayerMarker") : TRUE]
                budget == spawn_points
                          + Income(Distance(player.position, 0),
                                   score.survived_time, score.score)
                          - points_currently_deployed(Fleet)
                next_ship == take_ship_stock(Fleet)
                price == points_for_ship(next_ship)
                n == Purchases(budget, price)
            IN /\ Room(n)
               /\ spawn_points' = budget - n * price
               /\ \E at \in [1..n -> SpawnOffsets] :
                    cmds' = [cmds EXCEPT !["spawn_ships"] =
                      [i \in 1..n |->
                         SpawnShip(from_template(next_ship,
                                     player.position + at[i], {"NPCLogic"}))]]
       ELSE UNCHANGED <<spawn_points, cmds>>
    /\ UNCHANGED <<lifecycle, nextLifecycle, state, nextState, ships, bullets,
                   images, decisions, score, events, phase, sched, panicked,
                   nextEntity, delayed, dialogue, explosions>>

---------------------------------------------------------------------------
(* Starting states.  setup() leaves the player, a Ship2, alone at the       *)
(* origin with a budget of 10; the scenarios below start later in a game,   *)
(* with enemies the spawner has placed and bullets in flight.               *)

START_POINTS == 10

Start(systems, before, keys, fleet, shots, clock) ==
    /\ lifecycle = "Game"
    /\ nextLifecycle = "None"
    /\ state = "Regular"
    /\ nextState = "None"
    /\ ships = fleet
    /\ bullets = shots
    /\ images = 0
    /\ decisions = <<>>
    /\ score = [score |-> 0, add_score_timer |-> 0, survived_time |-> clock]
    /\ events = <<>>
    /\ cmds = NoCmds
    /\ ran = {}
    /\ sched = [systems |-> systems, before |-> before, keys |-> keys]
    /\ trace = <<>>
    /\ panicked = FALSE
    /\ nextEntity = 1 + Cardinality(DOMAIN fleet \cup DOMAIN shots)
    /\ spawn_points = START_POINTS
    /\ delayed = [buffered_locations |-> <<>>, current_location |-> 0]
    /\ dialogue = FALSE
    /\ explosions = <<>>

\* PlayerBundle::create_ship and EnemySpacecraftBundle::create_ship
Player(t, pos) == from_template(t, pos, {"PlayerMarker"})
Enemy(t, pos)  == from_template(t, pos, {"NPCLogic"})

\* A ship that has taken one hit from an enemy.
Hit(s) == [s EXCEPT !.health = @ - HIT]

\* A bullet of shooter e whose immunity has run out.
OldBullet(e, player_shot, pos, heading) ==
    [heading |-> heading, position |-> pos, velocity |-> BULLET_VEL,
     shooter |-> e, immunity_time |-> TimerTick(TimerNew, IMMUNITY_MS, IMMUNITY_MS),
     player_shot |-> player_shot]

---------------------------------------------------------------------------
(* Spacecraft::collide on its own: any ship, any damage, either rule.       *)

Damages == (1..MaxDamage) \cup {LETHAL}

CollideStep ==
    /\ phase = "Harness"
    /\ Bounded
    /\ \E e \in DOMAIN ships, damage \in Damages, reduce_to_one \in BOOLEAN :
         LET r == collide(ships[e].health, damage, reduce_to_one, score.score)
         IN /\ ships' = [ships EXCEPT ![e].health = r.health]
            /\ score' = [score EXCEPT !.score = r.score]
            /\ trace' = <<Call(e, ships[e].health, damage, reduce_to_one,
                               score.score, r)>>
    /\ UNCHANGED <<lifecycle, nextLifecycle, state, nextState, bullets, images,
                   decisions, events, cmds, ran, phase, sched, panicked,
                   nextEntity, spawn_points, delayed, dialogue, explosions>>

InitCollide ==
    /\ \E t \in ShipTypes : Start({}, {}, {}, 1 :> Enemy(t, 0), <<>>, 0)
    /\ phase = "Harness"

NextCollide == CollideStep

SpecCollide == InitCollide /\ [][NextCollide]_vars

Calls == {trace[i] : i \in {j \in 1..Len(trace) : "damage" \in DOMAIN trace[j]}}

\* C1: a hit under the reduce-to-one rule that would bring the health to zero
\* or below leaves the health at exactly 1 and returns true; the health is
\* never zero or negative after such a hit.
C1_ReduceToOneClamps ==
    \A c \in Calls :
        c.reduce_to_one /\ c.before - c.damage <= 0
            => c.after = 1 /\ c.ret = TRUE /\ ships[c.ent].health > 0

C1_Witness ==
    \E c \in Calls :
        c.reduce_to_one /\ c.before - c.damage < 0 /\ c.after = 1 /\ c.ret

\* C2: a hit outside the reduce-to-one rule sets the health to the health
\* before less the damage, which may be negative, returns false and leaves
\* the score alone; a ship it leaves at zero or below passes the test of the
\* destruction cleanup.
C2_PlainHitSubtracts ==
    \A c \in Calls :
        ~c.reduce_to_one
            => /\ c.after = c.before - c.damage
               /\ ships[c.ent].health = c.before - c.damage
               /\ c.ret = FALSE
               /\ c.score_after = c.score_before
               /\ score.score = c.score_before
               /\ (c.after <= 0 => \A p \in DOMAIN ships : Dead(ships[c.ent], ships[p]))

C2_Witness ==
    \E c \in Calls : ~c.reduce_to_one /\ c.after < 0 /\ ~c.ret

---------------------------------------------------------------------------
(* The capture flow: collisions, the pause, the decision, the swap and the  *)
(* cleanup, past the grace period: two enemies and a player bullet in one   *)
(* cell, the player in the next.                                            *)

CaptureSystems ==
    {"collide_bullets", "pause_for_captured_ship", "handle_inputs",
     "check_for_usage_decision", "swap_ships", "kill_dead_ships",
     "neo_handle_explosions"}

\* Of these only kill_dead_ships reads what another writes within an Update
\* (the health collide_bullets and check_for_usage_decision change); it runs
\* before or after them, the others in the order of the plugin's tuples.
CaptureOrder ==
    {<<"handle_inputs", "kill_dead_ships">>,
     <<"pause_for_captured_ship", "kill_dead_ships">>,
     <<"kill_dead_ships", "swap_ships">>,
     <<"kill_dead_ships", "neo_handle_explosions">>,
     <<"handle_inputs", "check_for_usage_decision">>,
     <<"handle_inputs", "pause_for_captured_ship">>,
     <<"pause_for_captured_ship", "collide_bullets">>,
     <<"collide_bullets", "swap_ships">>,
     <<"check_for_usage_decision", "neo_handle_explosions">>,
     <<"swap_ships", "neo_handle_explosions">>}

PAST_GRACE == 3250

InitCapture ==
    /\ Start(CaptureSystems, CaptureOrder, DigitKeys,
             1 :> Player("Ship2", 1) @@ 2 :> Hit(Enemy("Ship1", 0))
               @@ 3 :> Hit(Enemy("Ship1", 0)),
             4 :> OldBullet(1, TRUE, 0, 0),
             PAST_GRACE)
    /\ phase = "StateTransition"

NextCapture ==
    \/ StateTransition
    \/ collide_bullets
    \/ pause_for_captured_ship
    \/ handle_inputs
    \/ check_for_usage_decision
    \/ swap_ships
    \/ kill_dead_ships
    \/ neo_handle_explosions
    \/ apply_deferred
    \/ PostUpdate

SpecCapture == InitCapture /\ [][NextCapture]_vars

\* Command c is in the buffer of system s.
Queued(s, c) == \E i \in 1..Len(cmds[s]) : cmds[s][i] = c

\* How many times command c is in the buffer of system s.
TimesQueued(s, c) == Cardinality({i \in 1..Len(cmds[s]) : cmds[s][i] = c})

\* collide_bullets has just run (its calls are the trace).
JustCollided == phase = "Update" /\ "collide_bullets" \in ran /\ trace # <<>>

---------------------------------------------------------------------------
(* Player bullets against one Ship4 (max_health 6), the player out of reach: *)
(* every hit is player-sourced and of damage HIT.                            *)

HitSystems == {"collide_bullets", "pause_for_captured_ship", "kill_dead_ships"}

InitHits ==
    /\ Start(HitSystems, {<<"pause_for_captured_ship", "collide_bullets">>}, {},
             1 :> Player("Ship2", 1) @@ 2 :> Enemy("Ship4", 0),
             3 :> OldBullet(1, TRUE, 0, 0) @@ 4 :> OldBullet(1, TRUE, 0, 0)
               @@ 5 :> OldBullet(1, TRUE, 0, 0),
             PAST_GRACE)
    /\ phase = "StateTransition"

NextHits ==
    \/ StateTransition
    \/ collide_bullets
    \/ pause_for_captured_ship
    \/ kill_dead_ships
    \/ apply_deferred
    \/ PostUpdate

SpecHits == InitHits /\ [][NextHits]_vars

\* C3: of the player-sourced hits of 1 on a ship that started at health 6,
\* the sixth, the one that finds the health at 1, leaves it at 1 and marks
\* the ship pending, once; no earlier hit marks it.
C3_SixthHitMarksPending ==
    JustCollided =>
        \A i \in 1..Len(trace) :
            LET c == trace[i]
            IN /\ c.reduce_to_one /\ c.damage = HIT
               /\ (c.before = 1 =>
                     /\ c.after = 1
                     /\ TimesQueued("collide_bullets", Insert(c.ent, "Pending")) = 1)
               /\ (c.before > 1 /\ (\A j \in 1..Len(trace) : trace[j].before > 1) =>
                     ~Queued("collide_bullets", Insert(c.ent, "Pending")))

---------------------------------------------------------------------------
(* The pause flow *)

Pending == With("Pending")

\* C4: at every reachable state at most one ship carries the pending marker,
\* the frames between the marking and the pause taking effect included.
C4_AtMostOnePending == Cardinality(Pending) <= 1

\* pause_for_captured_ship has run in this Regular frame and the frame's
\* Commands are not applied yet: the markers are those of the frame's start.
PauseRan ==
    /\ phase = "Update"
    /\ state = "Regular"
    /\ "pause_for_captured_ship" \in ran
    /\ ~AllRan

\* The frame has started (the transition is past) and no system has run.
FrameStart == phase = "Update" /\ ran = {}

Resolved(d) ==
    /\ phase = "Update"
    /\ state = "Paused"
    /\ "check_for_usage_decision" \in ran
    /\ ~AllRan
    /\ decisions = <<d>>

\* C6: resolving a decision, whichever it is, removes the pending marker from
\* every pending ship, despawns the prompt and the decision entity and sets
\* the mode back to Regular for the next transition.
C6_DecisionResolves ==
    \A d \in {"Transfer", "Keep", "Destroy"} :
        Resolved(d) =>
            /\ ~panicked
            /\ \A e \in Pending : Queued("check_for_usage_decision", Remove(e, "Pending"))
            /\ \A e \in Pending : \A s \in AllSystems : ~Queued(s, Insert(e, "Pending"))
            /\ Queued("check_for_usage_decision", DespawnImage)
            /\ Queued("check_for_usage_decision", DespawnDecision)
            /\ images = 1
            /\ nextState = "Regular"

C6_Witness == Resolved("Transfer") /\ Pending # {}

\* A ship the Destroy decision has hit: LETHAL taken from a health of 1.
Destroyed(e) == e \in DOMAIN ships /\ ships[e].health <= 1 - LETHAL

\* The step is a run of kill_dead_ships in Regular mode.
CleanupPass ==
    /\ state = "Regular"
    /\ "kill_dead_ships" \notin ran
    /\ ran' = ran \cup {"kill_dead_ships"}

\* C7: Destroy takes LETHAL from every pending ship at once, unclamped and
\* without marking it again; the ship keeps a health of zero or less and the
\* cleanup pass of the next Regular frame despawns it.
C7_DestroyKills ==
    [][/\ Resolved("Destroy")' /\ ~Resolved("Destroy") =>
            \A e \in Pending :
                /\ ships'[e].health = ships[e].health - LETHAL
                /\ ships'[e].health <= 0
                /\ \A s \in AllSystems :
                      \A i \in 1..Len(cmds'[s]) : cmds'[s][i] # Insert(e, "Pending")
       /\ \A e \in DOMAIN ships :
            Destroyed(e) /\ e \in DOMAIN ships' => ships'[e].health <= 0
       /\ CleanupPass =>
            \A e \in DOMAIN ships :
                Destroyed(e) /\ "Pending" \notin ships[e].tags
                    => \E i \in 1..Len(cmds'["kill_dead_ships"]) :
                          cmds'["kill_dead_ships"][i] = Despawn(e)
      ]_vars

\* swap_ships has run in this Regular frame and the frame's Commands are not
\* applied yet: the markers are those of the frame's start.
SwapRan ==
    /\ phase = "Update"
    /\ state = "Regular"
    /\ "swap_ships" \in ran
    /\ ~AllRan

\* C8: after Transfer, the run of swap_ships in the next Regular frame takes
\* the swap-to marker and the NPC logic from the ship that was pending and
\* makes it the player, and takes the player marker from the previous player
\* and gives it NPC logic; no ship keeps the swap-to marker.
C8_TransferSwaps ==
    SwapRan =>
        /\ \A e \in With("SwapToShipMarker") :
              /\ Queued("swap_ships", Remove(e, "SwapToShipMarker"))
              /\ Queued("swap_ships", Remove(e, "NPCLogic"))
              /\ Queued("swap_ships", Insert(e, "PlayerMarker"))
        /\ With("SwapToShipMarker") # {} =>
              \A p \in With("PlayerMarker") \ With("SwapToShipMarker") :
                  /\ Queued("swap_ships", Remove(p, "PlayerMarker"))
                  /\ Queued("swap_ships", Insert(p, "NPCLogic"))

\* C9: after Keep the ship that was pending carries Captured, still has its
\* NPC logic, is not the player and is pending no longer.
C9_KeepCaptures ==
    Resolved("Keep") =>
        \A e \in Pending :
            /\ Queued("check_for_usage_decision", Insert(e, "Captured"))
            /\ Queued("check_for_usage_decision", Remove(e, "Pending"))
            /\ "NPCLogic" \in ships[e].tags
            /\ "PlayerMarker" \notin ships[e].tags

---------------------------------------------------------------------------
(* A whole game around one pause: every system of the plugin, from the end *)
(* of the frame in which a player bullet captured the enemy beside the      *)
(* player, whose weapon has reloaded, one frame before the survival clock   *)
(* reaches MaxTime.                                                          *)

\* A ship whose weapon has reloaded.
Armed(s) ==
    [s EXCEPT !.weapon_cooldown =
        TimerTick(@, Reload(s.ship_type), Reload(s.ship_type))]

\* A ship collide_bullets has marked decision-pending.
Marked(s) == [s EXCEPT !.health = 1, !.tags = @ \cup {"Pending"}]

\* The pairs of a sequence, earlier before later.
Chain(seq) ==
    {<<seq[p[1]], seq[p[2]]>> :
        p \in {q \in (1..Len(seq)) \X (1..Len(seq)) : q[1] < q[2]}}

\* The Regular-only systems run in the order of the plugin's tuple, one of
\* the orders the scheduler may pick, and before the systems that also run
\* in Paused mode.  Of those, kill_dead_ships reads the health that
\* check_for_usage_decision, recharge_shield and enforce_border write and runs
\* before or after each of them; the others touch disjoint data.
GameOrder ==
    Chain(<<"pause_for_captured_ship", "move_spaceships", "handle_npc_logic",
            "move_bullets", "tick_timer", "collide_bullets", "kill_far_bullets",
            "swap_ships", "update_score", "spawn_ships",
            "tick_bullet_immunity_time", "update_delayed_location",
            "handle_inputs", "check_for_usage_decision", "recharge_shield",
            "enforce_border", "neo_handle_explosions">>)
    \cup {<<s, "kill_dead_ships">> :
            s \in (RegularSystems \cup {"update_delayed_location"})}
    \cup {<<"kill_dead_ships", "neo_handle_explosions">>}

GameKeys == {"ArrowLeft", "ArrowUp", "Space", "Digit2"}

InitGame ==
    /\ Start(AllSystems, GameOrder, GameKeys,
             1 :> Armed(Player("Ship2", 0)) @@ 2 :> Marked(Enemy("Ship1", 0)),
             <<>>, MaxTime - DELTA_MS)
    /\ phase = "StateTransition"

NextGame ==
    \/ StateTransition
    \/ pause_for_captured_ship
    \/ move_spaceships
    \/ handle_npc_logic
    \/ move_bullets
    \/ tick_timer
    \/ collide_bullets
    \/ kill_far_bullets
    \/ swap_ships
    \/ update_score
    \/ spawn_ships
    \/ tick_bullet_immunity_time
    \/ update_delayed_location
    \/ handle_inputs
    \/ check_for_usage_decision
    \/ recharge_shield
    \/ enforce_border
    \/ kill_dead_ships
    \/ neo_handle_explosions
    \/ apply_deferred
    \/ PostUpdate

SpecGame == InitGame /\ [][NextGame]_vars

\* A command of kind k is in some buffer after the step.
SpawnQueued(k) ==
    \E s \in AllSystems : \E i \in 1..Len(cmds'[s]) : cmds'[s][i].op = k

\* C10: in a step taken while the mode is Paused no ship changes position or
\* heading, no bullet appears or moves, no weapon cooldown and no bullet
\* immunity timer advances, no ship appears, and the score, the survival
\* clock and the spawner budget stay as they are.
C10_PausedFreezes ==
    [][state = "Paused" =>
          /\ DOMAIN ships' \subseteq DOMAIN ships
          /\ \A e \in DOMAIN ships \cap DOMAIN ships' :
                /\ ships'[e].position = ships[e].position
                /\ ships'[e].heading = ships[e].heading
                /\ ships'[e].weapon_cooldown = ships[e].weapon_cooldown
          /\ DOMAIN bullets' \subseteq DOMAIN bullets
          /\ \A k \in DOMAIN bullets \cap DOMAIN bullets' :
                /\ bullets'[k].position = bullets[k].position
                /\ bullets'[k].immunity_time = bullets[k].immunity_time
          /\ ~SpawnQueued("spawn_bullet")
          /\ ~SpawnQueued("spawn_ship")
          /\ score'.score = score.score
          /\ score'.survived_time = score.survived_time
          /\ score'.add_score_timer = score.add_score_timer
          /\ spawn_points' = spawn_points
      ]_vars

\* A Paused frame has run to its end with a ship under way, a weapon still
\* reloading and a bullet still inside its immunity window.
C10_Witness ==
    /\ state = "Paused"
    /\ phase = "Update"
    /\ AllRan
    /\ "handle_inputs" \in ran
    /\ \E e \in DOMAIN ships :
          ships[e].velocity # 0 /\ ~ships[e].weapon_cooldown.finished
    /\ \E k \in DOMAIN bullets : ~bullets[k].immunity_time.finished

---------------------------------------------------------------------------
(* Ships in Paused frames *)

\* The step is check_for_usage_decision resolving a Destroy decision.
DestroyStep ==
    /\ state = "Paused"
    /\ decisions = <<"Destroy">>
    /\ "check_for_usage_decision" \notin ran
    /\ ran' = ran \cup {"check_for_usage_decision"}

\* C11: in a step taken while the mode is Paused no ship is despawned or
\* queued for despawning, no ship's velocity changes, and no ship's health
\* changes except that of a pending ship under the Destroy decision.
C11_PausedShipsUntouched ==
    [][state = "Paused" =>
          \A e \in DOMAIN ships :
              /\ e \in DOMAIN ships'
              /\ \A s \in AllSystems :
                    \A i \in 1..Len(cmds'[s]) : cmds'[s][i] # Despawn(e)
              /\ ships'[e].velocity = ships[e].velocity
              /\ \/ ships'[e].health = ships[e].health
                 \/ /\ DestroyStep
                    /\ "Pending" \in ships[e].tags
                    /\ ships'[e].health = ships[e].health - LETHAL
      ]_vars

---------------------------------------------------------------------------
(* Collision resolution, event by event *)

\* The step is a run of collide_bullets.
CollideRuns ==
    /\ "collide_bullets" \notin ran
    /\ ran' = ran \cup {"collide_bullets"}

\* The event the run resolves: the first unread one naming a ship of the query.
Resolving == events[FirstMatch]

\* Pair p is a ship and a bullet that ship fired, still inside its immunity.
SelfHit(p) ==
    \E x \in DOMAIN ships, k \in DOMAIN bullets :
        /\ {p[1], p[2]} = {x, k}
        /\ bullets[k].shooter = x
        /\ ~bullets[k].immunity_time.finished

\* The ship of a pair of a ship and a bullet.
ShipOf(p) == IF p[1] \in DOMAIN ships THEN p[1] ELSE p[2]

---------------------------------------------------------------------------
(* The shield: handle_inputs, move_spaceships and recharge_shield, with the *)
(* pause of a decision-pending ship.  The player flies a Ship6, whose       *)
(* shield recharges in four frames; its shield timer is as from_template    *)
(* leaves it or has been ticked once by move_spaceships, and it has taken   *)
(* one hit or none.  The three shield systems run in any order.             *)

ShieldSystems ==
    {"pause_for_captured_ship", "check_for_usage_decision", "handle_inputs",
     "move_spaceships", "recharge_shield"}

\* pause_for_captured_ship and check_for_usage_decision touch none of the
\* data of the three shield systems and run first.
ShieldOrder ==
    {<<"pause_for_captured_ship", s>> :
        s \in ShieldSystems \ {"pause_for_captured_ship"}}
    \cup {<<"check_for_usage_decision", s>> :
        s \in {"handle_inputs", "move_spaceships", "recharge_shield"}}

ShieldKeys == {"KeyS", "ArrowUp", "Digit2"}

\* A ship after a frame of move_spaceships: its shield timer has been ticked.
Charged(s) ==
    [s EXCEPT !.shield_recharge =
        TimerTick(@, ShipProfile(s.ship_type).shield_recharge_time, DELTA_MS)]

InitShield ==
    /\ \E p \in {Player("Ship6", 0), Charged(Player("Ship6", 0)),
                 Hit(Player("Ship6", 0)), Charged(Hit(Player("Ship6", 0)))} :
         Start(ShieldSystems, ShieldOrder, ShieldKeys,
               1 :> p @@ 2 :> Marked(Enemy("Ship1", 0)), <<>>, PAST_GRACE)
    /\ phase = "StateTransition"

NextShield ==
    \/ StateTransition
    \/ pause_for_captured_ship
    \/ check_for_usage_decision
    \/ handle_inputs
    \/ move_spaceships
    \/ recharge_shield
    \/ apply_deferred
    \/ PostUpdate

SpecShield == InitShield /\ [][NextShield]_vars

\* Ship e is in one of the two recharging states.
Shielding(e) ==
    /\ e \in DOMAIN ships
    /\ ships[e].tags \cap {"RechargingShieldMarker", "ShieldTimeRemainingTimer"} # {}

\* This step is handle_inputs activating the shield of ship e.
Activates(e) ==
    /\ "handle_inputs" \in ran' \ ran
    /\ \E i \in 1..Len(cmds'["handle_inputs"]) :
          cmds'["handle_inputs"][i] = Insert(e, "RechargingShieldMarker")

\* This step ends a tick.
EndOfTick == phase = "Update" /\ phase' = "StateTransition"

\* C13: the shield is activated only when the ship's shield_recharge timer
\* has finished and the mode is not Paused; in the ticks after the
\* activation tick, until the recharge completes, the position of the ship
\* does not change, and its velocity and rotation delta are zero at the end
\* of the tick.
C13_ShieldHolds ==
    [][\A e \in DOMAIN ships :
          /\ Activates(e) =>
                state # "Paused" /\ ships[e].shield_recharge.finished
          /\ Shielding(e) /\ e \in DOMAIN ships' =>
                ships'[e].position = ships[e].position
          /\ EndOfTick /\ Has(e, "ShieldTimeRemainingTimer") =>
                ships[e].velocity = 0 /\ ships[e].delta_rotation = 0
      ]_vars

\* This step is recharge_shield completing the recharge of ship e.
Completes(e) ==
    /\ "recharge_shield" \in ran' \ ran
    /\ Has(e, "ShieldTimeRemainingTimer")
    /\ ~Has(e, "RechargingShieldMarker")
    /\ ships[e].shield_recharge.just

\* Ship e is recharging, its timer has finished in an earlier tick, and
\* recharge_shield has not completed the recharge: just_finished() is false
\* from now on, since only handle_inputs resets the timer and its query
\* leaves recharging ships out.
Missed(e) ==
    /\ Has(e, "ShieldTimeRemainingTimer")
    /\ ships[e].shield_recharge.finished
    /\ ~ships[e].shield_recharge.just
    /\ ~Queued("recharge_shield", Remove(e, "ShieldTimeRemainingTimer"))

\* C14: an activated recharge completes, and once: the completion sets the
\* health to min(health + 1, max_health) and removes the recharging state,
\* the health of a ship rises in no other step, and no recharging ship is
\* left with a finished timer and its completion missed.
C14_RechargeCompletesOnce ==
    [][\A e \in DOMAIN ships :
          /\ Completes(e) =>
                /\ ships'[e].health = Recharged(ships[e])
                /\ \E i \in 1..Len(cmds'["recharge_shield"]) :
                      cmds'["recharge_shield"][i] = Remove(e, "ShieldTimeRemainingTimer")
          /\ e \in DOMAIN ships' /\ ships'[e].health > ships[e].health =>
                Completes(e)
          /\ ~Missed(e)
      ]_vars

---------------------------------------------------------------------------
(* The border: a player with two hit points flying outwards from the       *)
(* warning radius, an enemy behind it and a wreck (an enemy another enemy's *)
(* bullet brought to health 0, flagged for its explosion) ahead of it.      *)

BorderSystems ==
    {"handle_inputs", "move_spaceships", "enforce_border", "kill_dead_ships",
     "neo_handle_explosions"}

BorderKeys == {"ArrowUp", "ArrowDown", "Enter"}

\* A ship under way.
Flying(s, v) == [s EXCEPT !.velocity = v]

\* A ship collide_bullets has brought to health 0 and flagged in the last tick.
Wreck(s) == [s EXCEPT !.health = 0, !.tags = @ \cup {"ExplosionMarker"}]

InitBorder ==
    /\ Start(BorderSystems, {}, BorderKeys,
             1 :> Flying(Charged(Player("Ship1", 2)), 1)
               @@ 2 :> Charged(Enemy("Ship1", 1))
               @@ 3 :> Wreck(Charged(Enemy("Ship1", 3))),
             <<>>, PAST_GRACE)
    /\ phase = "StateTransition"

NextBorder ==
    \/ StateTransition
    \/ handle_inputs
    \/ move_spaceships
    \/ enforce_border
    \/ kill_dead_ships
    \/ neo_handle_explosions
    \/ apply_deferred
    \/ PostUpdate

SpecBorder == InitBorder /\ [][NextBorder]_vars

\* This step is a run of enforce_border.
BorderRuns == "enforce_border" \in ran' \ ran

\* The distance of ship e from the origin.
Out(e) == Distance(ships[e].position, 0)

\* enforce_border' queues the explosion flag for ship e.
Flagged(e) == cmds'["enforce_border"] = <<Insert(e, "ExplosionMarker")>>

\* C15 as stated: in every tick in which the player is at distance >= 15
\* from the origin enforce_border takes exactly 100 from its health and flags
\* it for explosion, also on consecutive ticks; it shows the warning
\* dialogue at distance >= 10 and hides it below 10.
C15_BorderEveryTick ==
    [][BorderRuns =>
          \A e \in With("PlayerMarker") :
              /\ Out(e) >= LETHAL_DISTANCE =>
                    /\ ships'[e].health = ships[e].health - LETHAL
                    /\ Flagged(e)
              /\ dialogue' = (Out(e) >= WARN_DISTANCE)
      ]_vars

\* C15, amended: enforce_border acts on a player that does not carry the
\* explosion flag: at distance >= 15 it takes exactly 100 from its health,
\* leaves the score alone and flags it, and it shows the dialogue at
\* distance >= 10 and hides it below 10.  A flagged player is skipped: its
\* health, the score and the dialogue stay as they are and nothing is queued.
C15_BorderUnflaggedPlayer ==
    [][BorderRuns =>
          \A e \in With("PlayerMarker") :
              IF Has(e, "ExplosionMarker")
              THEN /\ ships' = ships
                   /\ score' = score
                   /\ dialogue' = dialogue
                   /\ cmds'["enforce_border"] = <<>>
              ELSE /\ Out(e) >= LETHAL_DISTANCE =>
                         /\ ships'[e].health = ships[e].health - LETHAL
                         /\ Flagged(e)
                   /\ Out(e) < LETHAL_DISTANCE =>
                         ships' = ships /\ cmds'["enforce_border"] = <<>>
                   /\ score' = score
                   /\ dialogue' = (Out(e) >= WARN_DISTANCE)
      ]_vars

\* enforce_border has run in a tick in which the player, damaged once and
\* flagged in the tick before, is still beyond the lethal radius.
C15_Witness ==
    /\ phase = "Update"
    /\ "enforce_border" \in ran
    /\ \E e \in With("PlayerMarker") :
          /\ Has(e, "ExplosionMarker")
          /\ Out(e) >= LETHAL_DISTANCE
          /\ ships[e].health = ShipProfile(ships[e].ship_type).max_health - LETHAL

\* C16: a player whose health is <= 0 in the Game state is despawned and the
\* lifecycle state becomes EndScreen: once kill_dead_ships has requested
\* EndScreen the program goes on to the state transition without stopping,
\* the transition makes the state EndScreen with no player left, and from
\* then on no gameplay system runs and the state stays EndScreen.
C16_DeadPlayerEndsGame ==
    [][/\ nextLifecycle = "EndScreen" => ~panicked'
       /\ nextLifecycle = "EndScreen" /\ phase = "StateTransition" =>
             lifecycle' = "EndScreen" /\ With("PlayerMarker") = {}
       /\ lifecycle = "EndScreen" => lifecycle' = "EndScreen" /\ ran' = {}
      ]_vars

C18_PendingNeverDespawned ==
    [][LET doomed(e) == \E s \in AllSystems : \E i \in 1..Len(cmds'[s]) :
                            cmds'[s][i] = Despawn(e)
           marking(e) == \E s \in AllSystems : \E i \in 1..Len(cmds'[s]) :
                            cmds'[s][i] = Insert(e, "Pending")
       IN \A e \in DOMAIN ships :
            /\ "Pending" \in ships[e].tags => e \in DOMAIN ships' /\ ~doomed(e)
            /\ ~(marking(e) /\ doomed(e))
      ]_vars

\* C19: resolving one collision-start event takes exactly one unit from the
\* health of each side that is a ship of the query and not immune, or
\* clamps it to 1 under the reduce-to-one rule; it takes no more than one
\* unit from any ship, and every collide call on a ship has reduce_to_one
\* true exactly when the other side of the pair is a player-shot bullet.
C19_OneHitPerSide ==
    [][CollideRuns /\ FirstMatch # 0 =>
          LET p == Resolving
              other(x) == IF x = p[1] THEN p[2] ELSE p[1]
              bypass == \E i \in 1..Len(trace') : "bypassing" \in DOMAIN trace'[i]
          IN \A x \in {p[1], p[2]} \cap DOMAIN ships :
                /\ ships[x].health - ships'[x].health <= HIT
                /\ x \in Hittable /\ ~bypass =>
                      ships'[x].health =
                          collide(ships[x].health, HIT, shotby_p(other(x)),
                                  score.score).health
                /\ \A i \in 1..Len(trace') :
                      "damage" \in DOMAIN trace'[i] /\ trace'[i].ent = x =>
                          trace'[i].reduce_to_one = shotby_p(other(x))
      ]_vars

\* What resolving Started(a, b) may leave: the ships, the score and the
\* Commands queued, for each ship of the pair the query may yield first.
Resolve(a, b) ==
    {IF Immune(first) THEN [ships |-> ships, score |-> score.score, q |-> {}]
     ELSE LET o == IF first = a THEN BranchA(a, b) ELSE BranchB(a, b)
          IN [ships |-> o.ships, score |-> o.score,
              q |-> {o.q[i] : i \in 1..Len(o.q)}] :
        first \in {a, b} \cap Hittable}

\* C20: the resolution of a collision-start event does not depend on the
\* order of its pair: where collide_bullets is about to resolve Started(x, y),
\* Started(y, x) would leave the same healths, score, markers and despawns.
C20_PairOrderIrrelevant ==
    phase = "Update" /\ Runs("collide_bullets") /\ FirstMatch # 0 =>
        Resolve(Resolving[1], Resolving[2]) = Resolve(Resolving[2], Resolving[1])

---------------------------------------------------------------------------
(* Collision resolution: immunity, the event batch, bullets and the score  *)

\* C21: a ship with a bullet it fired still inside that bullet's
\* self-immunity window loses no health in a run of collide_bullets,
\* whichever side of the pair it is on and whatever the other entity is.
C21_ImmuneShipKeepsHealth ==
    [][CollideRuns =>
          \A x \in DOMAIN ships :
              Immune(x) =>
                  x \in DOMAIN ships' /\ ships'[x].health >= ships[x].health
      ]_vars

\* A batch of two collision-start events, delivered by the physics step of
\* the tick before: a Ship4 and a Ship1 that has just fired in one cell with
\* the Ship1's bullet (inside its immunity window) and an old player bullet;
\* the player is out of reach.  The batch is any two of the touching pairs.
InitBatch ==
    /\ lifecycle = "Game"
    /\ nextLifecycle = "None"
    /\ state = "Regular"
    /\ nextState = "None"
    /\ ships = 1 :> Player("Ship2", 1) @@ 2 :> Enemy("Ship4", 0)
                 @@ 3 :> Enemy("Ship1", 0)
    /\ bullets = 4 :> OldBullet(1, TRUE, 0, 0)
                   @@ 5 :> spawn_bullet(Enemy("Ship1", 0), 3, FALSE)
    /\ images = 0
    /\ decisions = <<>>
    /\ score = [score |-> 0, add_score_timer |-> 0, survived_time |-> PAST_GRACE]
    /\ events \in [1..2 -> Pairs]
    /\ cmds = NoCmds
    /\ ran = {}
    /\ sched = [systems |-> HitSystems,
                before |-> {<<"pause_for_captured_ship", "collide_bullets">>},
                keys |-> {}]
    /\ trace = <<>>
    /\ panicked = FALSE
    /\ nextEntity = 6
    /\ spawn_points = START_POINTS
    /\ delayed = [buffered_locations |-> <<>>, current_location |-> 0]
    /\ dialogue = FALSE
    /\ explosions = <<>>
    /\ phase = "Update"

\* The tick that reads the batch, up to its physics step.
NextBatch ==
    \/ pause_for_captured_ship
    \/ collide_bullets
    \/ kill_dead_ships
    \/ apply_deferred
    \/ PostUpdate

SpecBatch == InitBatch /\ [][NextBatch]_vars

\* C22: a run of collide_bullets resolves every event of the batch it is
\* given: no event is left unread after the run, whether or not an earlier
\* event of the batch matched a ship or took the immunity bypass.
C22_WholeBatchResolved ==
    [][CollideRuns => events' = <<>>]_vars

\* C23: when collide_bullets resolves an event between a bullet and a ship
\* and damages the ship, it despawns the bullet, whichever of the two comes
\* first in the pair; the cull pass despawns every bullet farther than 2
\* units from the player.
C23_BulletsDespawned ==
    [][/\ CollideRuns /\ FirstMatch # 0 =>
             \A k \in {Resolving[1], Resolving[2]} \cap DOMAIN bullets :
                 (\E i \in 1..Len(trace') :
                      /\ "damage" \in DOMAIN trace'[i]
                      /\ trace'[i].ent = ShipOf(Resolving))
                 => \E i \in 1..Len(cmds'["collide_bullets"]) :
                        cmds'["collide_bullets"][i] = Despawn(k)
       /\ "kill_far_bullets" \in ran' \ ran =>
             \A k \in DOMAIN bullets : \A p \in With("PlayerMarker") :
                 Distance(bullets[k].position, ships[p].position) > BULLET_RANGE
                 => \E i \in 1..Len(cmds'["kill_far_bullets"]) :
                        cmds'["kill_far_bullets"][i] = Despawn(k)
      ]_vars

\* C24: a call of Spacecraft::collide adds exactly 15 to the score when a
\* reduce_to_one hit is clamped to health 1, exactly 5 when a reduce_to_one
\* hit is not lethal and nothing when reduce_to_one is false; and one
\* resolved collision event whose bullet is the player's adds exactly 5 or
\* exactly 15.
C24_ScorePerHit ==
    [][/\ \A i \in 1..Len(trace') :
             "damage" \in DOMAIN trace'[i] =>
                 trace'[i].score_after - trace'[i].score_before =
                     IF ~trace'[i].reduce_to_one THEN 0
                     ELSE IF trace'[i].before - trace'[i].damage <= 0
                          THEN SCORE_CLAMP ELSE SCORE_HIT
       /\ /\ CollideRuns
          /\ FirstMatch # 0
          /\ shotby_p(Resolving[1]) \/ shotby_p(Resolving[2])
          /\ \E i \in 1..Len(trace') : "damage" \in DOMAIN trace'[i]
          => score'.score - score.score \in {SCORE_HIT, SCORE_CLAMP}
      ]_vars

---------------------------------------------------------------------------
(* Firing: a stationary Ship1 player (one bullet a shot, reload 1 s) with   *)
(* its weapon reloaded.  Its bullets fly one cell a frame, and move_bullets *)
(* runs before handle_inputs, so that at a firing the distance of an        *)
(* earlier bullet from the ship is the number of frames since it was fired. *)

InitFire ==
    /\ Start({"tick_timer", "move_bullets", "handle_inputs"},
             {<<"move_bullets", "handle_inputs">>}, {"Space"},
             1 :> Armed(Player("Ship1", 0)), <<>>, PAST_GRACE)
    /\ phase = "StateTransition"

NextFire ==
    \/ StateTransition
    \/ tick_timer
    \/ move_bullets
    \/ handle_inputs
    \/ apply_deferred
    \/ PostUpdate

SpecFire == InitFire /\ [][NextFire]_vars

\* This step is ship e firing: handle_inputs or handle_npc_logic queues the
\* spawn of its bullets.
Fires(e) ==
    \E s \in {"handle_inputs", "handle_npc_logic"} :
        /\ s \in ran' \ ran
        /\ \E i \in 1..Len(cmds'[s]) :
              cmds'[s][i].op = "spawn_bullet" /\ cmds'[s][i].arg.shooter = e

\* C25: a ship fires only when its weapon cooldown has finished, the firing
\* resets the cooldown, and at a firing every earlier bullet of the ship has
\* been in flight for at least gun_reload_time of Regular-mode time.
C25_ReloadBetweenShots ==
    [][\A e \in DOMAIN ships :
          Fires(e) =>
              /\ ships[e].weapon_cooldown.finished
              /\ ships'[e].weapon_cooldown = TimerNew
              /\ \A k \in DOMAIN bullets :
                    bullets[k].shooter = e =>
                        Dist(bullets[k].position, ships[e].position) * DELTA_MS
                            >= Reload(ships[e].ship_type) * bullets[k].velocity
      ]_vars

---------------------------------------------------------------------------
(* The spawner: the player alone with the budget it carries over and up to  *)
(* two enemies the spawner placed earlier; spawn_ships and update_score run *)
(* in either order.                                                         *)

SpawnSystems == {"spawn_ships", "update_score"}

InitSpawn ==
    /\ lifecycle = "Game"
    /\ nextLifecycle = "None"
    /\ state = "Regular"
    /\ nextState = "None"
    /\ \E at \in {0, 2} : \E k \in 0..2 :
         \E types \in [2..(k + 1) -> {"Ship1", "Ship2", "Ship4"}] :
           /\ ships = 1 :> Player("Ship2", at)
                        @@ [e \in 2..(k + 1) |-> Enemy(types[e], 1)]
           /\ nextEntity = k + 2
    /\ bullets = <<>>
    /\ images = 0
    /\ decisions = <<>>
    /\ score = [score |-> 0, add_score_timer |-> 0, survived_time |-> PAST_GRACE]
    /\ events = <<>>
    /\ cmds = NoCmds
    /\ ran = {}
    /\ sched = [systems |-> SpawnSystems, before |-> {}, keys |-> {}]
    /\ trace = <<>>
    /\ panicked = FALSE
    /\ spawn_points \in 0..(START_POINTS + 5)
    /\ delayed = [buffered_locations |-> <<>>, current_location |-> 0]
    /\ dialogue = FALSE
    /\ explosions = <<>>
    /\ phase = "StateTransition"

NextSpawn ==
    \/ StateTransition
    \/ spawn_ships
    \/ update_score
    \/ apply_deferred
    \/ PostUpdate

SpecSpawn == InitSpawn /\ [][NextSpawn]_vars

\* This step is spawn_ships running with the player in the world.
Spawning ==
    /\ "spawn_ships" \in ran' \ ran
    /\ Cardinality(With("PlayerMarker")) = 1

\* The point costs of the ships this step of spawn_ships buys.
Spent ==
    LET q == cmds'["spawn_ships"]
        RECURSIVE Sum(_)
        Sum(i) == IF i = 0 THEN 0
                  ELSE points_for_ship(q[i].arg.ship_type) + Sum(i - 1)
    IN Sum(Len(q))

\* C26: a run of spawn_ships with the player first changes the budget by
\* ceil(0.25 * (0.4 * distance + seconds / 20 + score / 50)) less the sum of
\* the point costs of the hostile ships deployed (the purchases come after);
\* with no hostile ship the change is the ceil term.
C26_BudgetIncome ==
    [][Spawning =>
          LET player == ships[CHOOSE e \in With("PlayerMarker") : TRUE]
              income == Income(Distance(player.position, 0),
                               score.survived_time, score.score)
              RECURSIVE Cost(_)
              Cost(S) == IF S = {} THEN 0
                         ELSE LET e == CHOOSE x \in S : TRUE
                              IN points_for_ship(ships[e].ship_type)
                                 + Cost(S \ {e})
          IN /\ spawn_points' + Spent = spawn_points + income - Cost(Fleet)
             /\ (Fleet = {} => spawn_points' + Spent = spawn_points + income)
      ]_vars

\* C27: the loop of spawn_ships ends in every run; every ship it spawns is of
\* the type take_ship_stock recommends, each purchase is made from a budget
\* strictly above the type's cost and deducts exactly that cost, and when the
\* loop stops the budget is at most the cost.
C27_SpawnLoop ==
    [][Spawning =>
          LET player == ships[CHOOSE e \in With("PlayerMarker") : TRUE]
              budget == spawn_points
                        + Income(Distance(player.position, 0),
                                 score.survived_time, score.score)
                        - points_currently_deployed(Fleet)
              next_ship == take_ship_stock(Fleet)
              points_req == points_for_ship(next_ship)
              q == cmds'["spawn_ships"]
          IN /\ \A i \in 1..Len(q) :
                   /\ q[i].op = "spawn_ship"
                   /\ q[i].arg.ship_type = next_ship
                   /\ budget - (i - 1) * points_req > points_req
             /\ spawn_points' = budget - Len(q) * points_req
             /\ spawn_points' <= points_req
      ]_vars

\* The loop has bought two ships and stopped with points to carry over.
C27_Witness ==
    /\ "spawn_ships" \in ran
    /\ Len(cmds["spawn_ships"]) = 2
    /\ spawn_points > 0
    /\ spawn_points <= points_for_ship(cmds["spawn_ships"][1].arg.ship_type)

\* C28: for a fleet that is not empty, the type spawn_ships asks
\* take_ship_stock for is a type whose share of the fleet, counted type by
\* type for the six types, falls shortest of its target share of 44, 25, 15,
\* 10, 5 and 1 percent.
C28_LargestDeficit ==
    [][Spawning /\ Fleet # {} =>
          LET count == Cardinality(Fleet)
              share(t) == 100 * Cardinality({e \in Fleet : ships[e].ship_type = t})
              target(t) ==
                  CASE t = "Ship1" -> 44 [] t = "Ship2" -> 25 [] t = "Ship3" -> 15
                    [] t = "Ship4" -> 10 [] t = "Ship5" -> 5  [] t = "Ship6" -> 1
              deficit(t) == target(t) * count - share(t)
          IN \A t \in ShipTypes :
                 deficit(take_ship_stock(Fleet)) >= deficit(t)
      ]_vars

---------------------------------------------------------------------------
(* The order of the systems within a tick *)

\* C29: in a tick in which they are due, collide_bullets has run when
\* neo_handle_explosions runs and when kill_dead_ships runs, and tick_timer
\* has run when handle_inputs or handle_npc_logic makes its fire check.
C29_SystemOrder ==
    [][LET due(s) == s \in sched.systems /\ RunIf(s)
           now(s) == s \in ran' \ ran
       IN /\ \A s \in {"neo_handle_explosions", "kill_dead_ships"} :
                now(s) /\ due("collide_bullets") => "collide_bullets" \in ran
          /\ \A s \in {"handle_inputs", "handle_npc_logic"} :
                now(s) /\ due("tick_timer") => "tick_timer" \in ran
      ]_vars

---------------------------------------------------------------------------
(* Health over the steps of a run *)

\* C30: over every step the health of a ship that stays in the world does
\* not rise, but by the 1 recharge_shield adds when a shield recharge
\* completes, and a ship whose health is 0 or less does not come back to a
\* health above 0.
C30_HealthNeverRevives ==
    [][\A e \in DOMAIN ships \cap DOMAIN ships' :
          /\ ships'[e].health > ships[e].health =>
                /\ "recharge_shield" \in ran' \ ran
                /\ ships'[e].health = ships[e].health + 1
          /\ ships[e].health <= 0 => ships'[e].health <= 0
      ]_vars

---------------------------------------------------------------------------
(* Health against the profile of the ship type *)

---------------------------------------------------------------------------
(* The score: a game 9.25 s old, three frames before the periodic award,    *)
(* with a ship waiting for the player's decision, so that a pause falls     *)
(* between the frames; the clock is followed for four frames of Regular     *)
(* time past the award.                                                     *)

ScoreSystems ==
    {"pause_for_captured_ship", "check_for_usage_decision", "handle_inputs",
     "update_score"}

InitScore ==
    /\ lifecycle = "Game"
    /\ nextLifecycle = "None"
    /\ state = "Regular"
    /\ nextState = "None"
    /\ ships = 1 :> Player("Ship2", 1) @@ 2 :> Marked(Enemy("Ship1", 0))
    /\ bullets = <<>>
    /\ images = 0
    /\ decisions = <<>>
    /\ score = [score |-> 0,
                add_score_timer |-> SCORE_PERIOD_MS - 3 * DELTA_MS,
                survived_time |-> SCORE_PERIOD_MS - 3 * DELTA_MS]
    /\ events = <<>>
    /\ cmds = NoCmds
    /\ ran = {}
    /\ sched = [systems |-> ScoreSystems,
                before |-> {<<"pause_for_captured_ship", "check_for_usage_decision">>,
                            <<"check_for_usage_decision", "handle_inputs">>},
                keys |-> DigitKeys,
                horizon |-> SCORE_PERIOD_MS + MaxTime]
    /\ trace = <<>>
    /\ panicked = FALSE
    /\ nextEntity = 3
    /\ spawn_points = START_POINTS
    /\ delayed = [buffered_locations |-> <<>>, current_location |-> 0]
    /\ dialogue = FALSE
    /\ explosions = <<>>
    /\ phase = "StateTransition"

NextScore ==
    \/ StateTransition
    \/ pause_for_captured_ship
    \/ check_for_usage_decision
    \/ handle_inputs
    \/ update_score
    \/ apply_deferred
    \/ PostUpdate

SpecScore == InitScore /\ [][NextScore]_vars

\* C32: the score decreases in no step; a run of update_score adds 5 exactly
\* when the Regular-mode time on the survival clock passes a multiple of 10 s
\* (10 s after the previous periodic award), and nothing else otherwise; in
\* Paused mode neither the score nor its timer changes.
C32_PeriodicAward ==
    [][/\ score'.score >= score.score
       /\ "update_score" \in ran' \ ran =>
             score'.score - score.score =
                 SCORE_TICK * ((score'.survived_time \div SCORE_PERIOD_MS)
                               - (score.survived_time \div SCORE_PERIOD_MS))
       /\ state = "Paused" => score' = score
      ]_vars

\* The periodic award has just been made, after a pause that ended with the
\* capture of the ship.
C32_Witness ==
    /\ "update_score" \in ran
    /\ score.score = SCORE_TICK
    /\ score.add_score_timer = 0
    /\ With("Captured") # {}

---------------------------------------------------------------------------
(* Explosions *)

\* C33: a ship on which the explosion flag is set keeps it until
\* neo_handle_explosions has spawned its explosion: when the Commands that
\* flag an unflagged ship are applied the ship is in the world with the
\* flag; a run of neo_handle_explosions spawns one explosion for every
\* flagged ship and removes its flag, moves every explosion one stage on,
\* up to stage 5, and despawns those that were at stage 5; and it runs in
\* every tick of the game, Regular or Paused.
C33_FlagGivesOneExplosion ==
    [][/\ \A e \in DOMAIN ships :
             /\ phase = "Update" /\ cmds' = NoCmds /\ cmds # NoCmds
             /\ ~Has(e, "ExplosionMarker")
             /\ \E s \in AllSystems : Queued(s, Insert(e, "ExplosionMarker"))
             => /\ ~panicked'
                /\ e \in DOMAIN ships'
                /\ "ExplosionMarker" \in ships'[e].tags
       /\ "neo_handle_explosions" \in ran' \ ran =>
             LET q == cmds'["neo_handle_explosions"]
                 n(c) == Cardinality({i \in 1..Len(q) : q[i] = c})
             IN /\ n(SpawnExplosion) = Cardinality(With("ExplosionMarker"))
                /\ \A e \in With("ExplosionMarker") :
                       n(Remove(e, "ExplosionMarker")) = 1
                /\ n(DespawnExplosion) =
                       Cardinality({i \in 1..Len(explosions) :
                                       explosions[i] = LAST_FRAME})
                /\ \A i \in 1..Len(explosions) :
                       explosions[i] < LAST_FRAME =>
                           explosions'[i] = explosions[i] + 1
       /\ phase = "Update" /\ phase' = "StateTransition" /\ lifecycle = "Game"
             => "neo_handle_explosions" \in ran
      ]_vars

---------------------------------------------------------------------------
(* Turning: the player, a captured ship beside it and the wreck of the last *)
(* enemy, which the cleanup pass is about to remove.  No weapon is          *)
(* reloaded.  The four systems run in any order.                            *)

TurnSystems ==
    {"handle_inputs", "handle_npc_logic", "move_spaceships", "kill_dead_ships"}

InitTurn ==
    /\ Start(TurnSystems, {}, {"ArrowLeft"},
             1 :> Player("Ship1", 1)
               @@ 2 :> from_template("Ship1", 0, {"NPCLogic", "Captured"})
               @@ 3 :> [Enemy("Ship1", 0 - 1) EXCEPT !.health = 0],
             <<>>, PAST_GRACE)
    /\ phase = "StateTransition"

NextTurn ==
    \/ StateTransition
    \/ handle_inputs
    \/ handle_npc_logic
    \/ move_spaceships
    \/ kill_dead_ships
    \/ apply_deferred
    \/ PostUpdate

SpecTurn == InitTurn /\ [][NextTurn]_vars

\* C34: a pass of handle_inputs over the player, or of handle_npc_logic over
\* a ship with NPC logic, leaves in the ship's rotation delta the turn the
\* pass has given the heading and nothing of an earlier pass; and at the end
\* of every tick the sprite of every ship is turned by minus the heading,
\* the turn of the tick's pass taken in if move_spaceships ran before it.
C34_RotationAppliedOnce ==
    [][/\ \A e \in DOMAIN ships \cap DOMAIN ships' :
             \/ "handle_inputs" \in ran' \ ran /\ Has(e, "PlayerMarker")
             \/ "handle_npc_logic" \in ran' \ ran /\ Has(e, "NPCLogic")
                                                   /\ ~Has(e, "PlayerMarker")
             => ships'[e].delta_rotation = ships[e].heading - ships'[e].heading
       /\ phase = "Update" /\ phase' = "StateTransition" =>
             \A e \in DOMAIN ships :
                 \/ ships[e].rotation = 0 - ships[e].heading
                 \/ ships[e].rotation + ships[e].delta_rotation
                        = 0 - ships[e].heading
      ]_vars

---------------------------------------------------------------------------
(* The player marker *)

\* C35: in every state at most one ship carries the player marker, and while
\* the game runs and the death of the player has not ended it, exactly one
\* does.
C35_OnePlayer ==
    /\ Cardinality(With("PlayerMarker")) <= 1
    /\ lifecycle = "Game" /\ nextLifecycle = "None" /\ ~panicked
          => Cardinality(With("PlayerMarker")) = 1

---------------------------------------------------------------------------
(* Decisions and the shield *)

\* C36: in every Paused tick of the game handle_inputs finds the player in
\* its query and so reads the decision keys: a key 1, 2 or 3 released during
\* the pause spawns its decision, which check_for_usage_decision resolves
\* back to Regular; a player in the shield-recharging state when the pause
\* begins is no exception.
C36_DecisionKeyServed ==
    [][/\ state = "Paused"
       /\ lifecycle = "Game"
       /\ "handle_inputs" \in ran' \ ran
       /\ With("PlayerMarker") # {}
       => Cardinality(Controllable) = 1
      ]_vars

\* C37: the player-controlled ship never carries the decision-pending
\* marker: no collision, one with a bullet shot by the player included,
\* marks the ship the player flies.
C37_PlayerNeverPending == With("PlayerMarker") \cap With("Pending") = {}

---------------------------------------------------------------------------
(* A transfer at the border: the player in the warning ring, a decision-    *)
(* pending Ship1 on the lethal radius, and a second bullet of the player    *)
(* touching it.                                                             *)

ExileSystems ==
    {"collide_bullets", "pause_for_captured_ship", "handle_inputs",
     "check_for_usage_decision", "swap_ships", "enforce_border",
     "kill_dead_ships", "neo_handle_explosions"}

\* The order of the capture flow; enforce_border runs anywhere after
\* handle_inputs.
ExileOrder == CaptureOrder \cup {<<"handle_inputs", "enforce_border">>}

InitExile ==
    /\ Start(ExileSystems, ExileOrder, DigitKeys,
             1 :> Player("Ship2", 2) @@ 2 :> Marked(Enemy("Ship1", 3)),
             3 :> OldBullet(1, TRUE, 3, 0),
             PAST_GRACE)
    /\ phase = "StateTransition"

NextExile ==
    \/ StateTransition
    \/ collide_bullets
    \/ pause_for_captured_ship
    \/ handle_inputs
    \/ check_for_usage_decision
    \/ swap_ships
    \/ enforce_border
    \/ kill_dead_ships
    \/ neo_handle_explosions
    \/ apply_deferred
    \/ PostUpdate

SpecExile == InitExile /\ [][NextExile]_vars

\* C38: a ship that carries the decision-pending marker has health exactly 1
\* for as long as it carries the marker, that is, until
\* check_for_usage_decision resolves a decision about it (the hit of a
\* Destroy decision lands with the removal of the marker in the same run).
C38_PendingHealthOne ==
    \A e \in With("Pending") :
        \/ ships[e].health = 1
        \/ Queued("check_for_usage_decision", Remove(e, "Pending"))

---------------------------------------------------------------------------
(* The prompt and the decision entity *)

\* C39: in every Paused state of the game in which the decision is not yet
\* resolved, at least one ship is decision-pending and exactly one prompt
\* entity exists; check_for_usage_decision never fails on its lookup of the
\* single prompt.
C39_PausedHasPrompt ==
    [][/\ state' = "Paused" /\ lifecycle' = "Game" /\ nextState' # "Regular" =>
             /\ Pending' # {}
             /\ images' = 1
       /\ "check_for_usage_decision" \in ran' \ ran => ~panicked'
      ]_vars

\* C40: no decision entity survives the resolution of a pause: whenever the
\* mode is Regular no ShipUsageDecision entity exists.
C40_NoDecisionInRegular == state = "Regular" => decisions = <<>>

====
